---- MODULE Spec2Model ----
(***************************************************************************)
(* Model of the spec-driven-development helper scripts:                    *)
(*   scripts/validate-spec.py, scripts/generate-snapshot.py,               *)
(*   full-stack-spec-driven-dev/scripts/generate-index.py and the two      *)
(*   scaffolders skills/scaffolding/scaffolding.py, skills/scaffold/       *)
(*   scaffold.py of full-stack-spec-driven-dev.                            *)
(*                                                                         *)
(* A text (a file's content, a line, a header value, a message) is a       *)
(* sequence of tokens.  Every character the code looks at (the dash, the   *)
(* colon, the blank, the tab, the line break, the sharp) is a token of its *)
(* own; a run of other characters that no regular expression, split or     *)
(* strip of the code looks inside (`status', `active', ...) is written as  *)
(* one token.  String equality is equality of token sequences.             *)
(***************************************************************************)
EXTENDS Integers, Sequences, FiniteSets, TLC

VARIABLES fs, dirExists, today, ret, disk, run

vars == <<fs, dirExists, today, ret, disk, run>>

----------------------------------------------------------------------------
(* Python's str primitives, on token sequences.                            *)

NL == "\n"

Range(s) == {s[i] : i \in 1..Len(s)}

\* str.isspace for one character: what \s matches and what strip() removes.
IsSpace(c) == c \in {" ", "\t", NL}

\* s[i:i+len(pat)] == pat
HasAt(s, i, pat) ==
    /\ i >= 1
    /\ i + Len(pat) - 1 <= Len(s)
    /\ \A n \in 1..Len(pat) : s[i + n - 1] = pat[n]

\* s.find(c) + 1: the first position of c in s (c occurs in s).
IndexOf(s, c) == CHOOSE i \in 1..Len(s) : s[i] = c /\ \A j \in 1..(i - 1) : s[j] # c

RECURSIVE LStrip(_)
LStrip(s) == IF s # <<>> /\ IsSpace(Head(s)) THEN LStrip(Tail(s)) ELSE s

RECURSIVE RStrip(_)
RStrip(s) ==
    IF s # <<>> /\ IsSpace(s[Len(s)]) THEN RStrip(SubSeq(s, 1, Len(s) - 1)) ELSE s

\* str.strip()
Strip(s) == RStrip(LStrip(s))

\* str.split(c): the pieces between the occurrences of c (one piece when c is absent).
RECURSIVE Split(_, _)
Split(s, c) ==
    IF \A n \in 1..Len(s) : s[n] # c THEN <<s>>
    ELSE LET i == IndexOf(s, c)
         IN  <<SubSeq(s, 1, i - 1)>> \o Split(SubSeq(s, i + 1, Len(s)), c)

\* c.join(parts)
RECURSIVE Join(_, _)
Join(parts, c) ==
    IF parts = <<>> THEN <<>>
    ELSE IF Len(parts) = 1 THEN parts[1]
    ELSE parts[1] \o <<c>> \o Join(Tail(parts), c)

\* A dict: a function from keys (texts) to values (texts).
EmptyDict == [k \in {} |-> <<>>]

\* d[key] = value
DictSet(d, key, value) ==
    [k \in (DOMAIN d) \cup {key} |-> IF k = key THEN value ELSE d[k]]

\* d.get(key, default)
DictGet(d, key, default) == IF key \in DOMAIN d THEN d[key] ELSE default

\* Python values a function may return in place of a dict.
PyNone == [type |-> "NoneType", items |-> EmptyDict]

PyDict(d) == [type |-> "dict", items |-> d]

----------------------------------------------------------------------------
(* parse_frontmatter: re.match(r'^---\s*\n(.*?)\n---', content, re.DOTALL) *)

DELIM == <<"-", "-", "-">>

NLDELIM == <<NL>> \o DELIM

\* The numbers k of characters \s* may take: `---', k blanks, a line break,
\* and somewhere from there on a line break followed by `---'.
FrontmatterSkips(content) ==
    {k \in 0..(IF HasAt(content, 1, DELIM) THEN Len(content) - 4 ELSE -1) :
        /\ \A i \in 4..(3 + k) : IsSpace(content[i])
        /\ content[4 + k] = NL
        /\ \E j \in (5 + k)..Len(content) : HasAt(content, j, NLDELIM)}

\* match is not None
FrontmatterMatches(content) == FrontmatterSkips(content) # {}

\* match.group(1): \s* is greedy (the largest k that lets the rest match),
\* (.*?) is lazy (up to the first line break followed by `---').
FrontmatterGroup(content) ==
    LET ks == FrontmatterSkips(content)
        k  == CHOOSE x \in ks : \A y \in ks : y <= x
        g  == 5 + k
        js == {j \in g..Len(content) : HasAt(content, j, NLDELIM)}
        e  == CHOOSE x \in js : \A y \in js : x <= y
    IN  SubSeq(content, g, e - 1)

\* The loop body, were a key's first value kept and a later one dropped.
FrontmatterLine_first_wins(frontmatter, line) ==
    IF \E n \in 1..Len(line) : line[n] = ":"
    THEN LET i     == IndexOf(line, ":")
             key   == SubSeq(line, 1, i - 1)
             value == SubSeq(line, i + 1, Len(line))
         IN  IF Strip(key) \in DOMAIN frontmatter THEN frontmatter
             ELSE DictSet(frontmatter, Strip(key), Strip(value))
    ELSE frontmatter

\* One pass of the loop body: `if ':' in line: key, value = line.split(':', 1);
\* frontmatter[key.strip()] = value.strip()'.
FrontmatterLine(frontmatter, line) ==
    IF \E n \in 1..Len(line) : line[n] = ":"
    THEN LET i     == IndexOf(line, ":")
             key   == SubSeq(line, 1, i - 1)
             value == SubSeq(line, i + 1, Len(line))
         IN  DictSet(frontmatter, Strip(key), Strip(value))
    ELSE frontmatter

\* for line in lines: ...
RECURSIVE FrontmatterLoop(_, _)
FrontmatterLoop(frontmatter, lines) ==
    IF lines = <<>> THEN frontmatter
    ELSE FrontmatterLoop(FrontmatterLine(frontmatter, Head(lines)), Tail(lines))

\* parse_frontmatter, were the lines of a text without a header block read
\* as if they were the block.
parse_frontmatter_index_reads_any_text(content) ==
    IF ~FrontmatterMatches(content) THEN PyDict(FrontmatterLoop(EmptyDict, Split(content, NL)))
    ELSE PyDict(FrontmatterLoop(EmptyDict, Split(FrontmatterGroup(content), NL)))

\* generate-index.py parse_frontmatter
parse_frontmatter_index(content) ==
    IF ~FrontmatterMatches(content) THEN PyDict(EmptyDict)
    ELSE PyDict(FrontmatterLoop(EmptyDict, Split(FrontmatterGroup(content), NL)))

\* generate-snapshot.py parse_frontmatter
parse_frontmatter_snapshot(content) ==
    IF ~FrontmatterMatches(content) THEN PyDict(EmptyDict)
    ELSE PyDict(FrontmatterLoop(EmptyDict, Split(FrontmatterGroup(content), NL)))

\* validate-spec.py parse_frontmatter, were it to return {} as the other two
\* do.
parse_frontmatter_validate_empty_dict(content) ==
    IF ~FrontmatterMatches(content) THEN PyDict(EmptyDict)
    ELSE PyDict(FrontmatterLoop(EmptyDict, Split(FrontmatterGroup(content), NL)))

\* validate-spec.py parse_frontmatter
parse_frontmatter_validate(content) ==
    IF ~FrontmatterMatches(content) THEN PyNone
    ELSE PyDict(FrontmatterLoop(EmptyDict, Split(FrontmatterGroup(content), NL)))

----------------------------------------------------------------------------
(* Paths.  A path below the specs directory is the sequence of its          *)
(* components, each a text; the last one is the file's name, whose last     *)
(* token is its suffix.                                                     *)

SpecsDirStr == <<"specs">>

\* Path.name
PathName(p) == p[Len(p)]

\* str(path.relative_to(specs_dir))
RelStr(p) == Join(p, "/")

\* str(path) of a path under the specs directory
PathStr(p) == SpecsDirStr \o <<"/">> \o RelStr(p)

NoFile == [exists |-> FALSE, text |-> <<>>]

File(text) == [exists |-> TRUE, text |-> text]

P_a == << <<"a", ".md">> >>

P_b == << <<"sub">>, <<"b", ".md">> >>

P_c == << <<"c", ".md">> >>

P_index == << <<"INDEX", ".md">> >>

P_snapshot == << <<"SNAPSHOT", ".md">> >>

P_glossary == << <<"sub">>, <<"glossary", ".md">> >>

P_notes == << <<"notes", ".txt">> >>

\* The paths of the model's specs directory.
AllPaths == {P_a, P_b, P_c, P_index, P_snapshot, P_glossary, P_notes}

\* Path.stem: the name without its suffix
PathStem(p) == SubSeq(PathName(p), 1, Len(PathName(p)) - 1)

\* The files specs_dir.rglob('*.md') yields: every file whose name ends in .md.
RGlobMd(files) ==
    {p \in AllPaths : files[p].exists /\ PathName(p)[Len(PathName(p))] = ".md"}

\* ('INDEX.md', 'SNAPSHOT.md', 'glossary.md')
RESERVED_NAMES == {<<"INDEX", ".md">>, <<"SNAPSHOT", ".md">>, <<"glossary", ".md">>}

\* The orders in which a directory walk may yield the files of a set.
RECURSIVE Orders(_)
Orders(S) ==
    IF S = {} THEN {<<>>}
    ELSE UNION {{<<x>> \o o : o \in Orders(S \ {x})} : x \in S}

\* The files of [p for p in specs_dir.rglob('*.md') if p.name not in (...)]
SpecFiles(files) == {p \in RGlobMd(files) : PathName(p) \notin RESERVED_NAMES}

\* The lists that comprehension may build: the walk yields the files in any
\* order, and the filter keeps the order of those it lets through.
SpecLists(files) == Orders(SpecFiles(files))


----------------------------------------------------------------------------
(* validate-spec.py                                                         *)

REQUIRED_FIELDS ==
    << <<"title">>, <<"status">>, <<"domain">>, <<"issue">>, <<"created">>, <<"updated">> >>

VALID_STATUSES == << <<"active">>, <<"deprecated">>, <<"superseded">>, <<"archived">> >>

\* The list literal of line 55.
ISSUE_PLACEHOLDERS ==
    << <<"PROJ", "-", "XXX">>, <<"[PROJ", "-", "XXX]">>, <<"TODO">>, <<>>, <<"{{ISSUE}}">> >>

FileNotFoundError(path) == <<"File not found: ">> \o PathStr(path)

MissingFrontmatterError(path) == <<"Missing frontmatter in ">> \o PathStr(path)

MissingFieldError(field, path) ==
    <<"Missing required field '">> \o field \o <<"' in ">> \o PathStr(path)

InvalidStatusError(status, path) ==
    <<"Invalid status '">> \o status \o <<"' in ">> \o PathStr(path)
        \o <<". Must be one of: ['active', 'deprecated', 'superseded', 'archived']">>

PlaceholderIssueError(path) ==
    <<"Issue field is placeholder in ">> \o PathStr(path)
        \o <<". Must reference actual issue.">>

\* The loop, were only `field not in fm' tested: an empty value passes.
RECURSIVE RequiredFieldsLoop_absent_only(_, _, _, _)
RequiredFieldsLoop_absent_only(errors, fields, fm, path) ==
    IF fields = <<>> THEN errors
    ELSE LET field == Head(fields)
         IN  IF field \notin DOMAIN fm
             THEN RequiredFieldsLoop_absent_only(Append(errors, MissingFieldError(field, path)),
                                                 Tail(fields), fm, path)
             ELSE RequiredFieldsLoop_absent_only(errors, Tail(fields), fm, path)

\* for field in REQUIRED_FIELDS: if field not in fm or not fm[field]: errors.append(...)
RECURSIVE RequiredFieldsLoop(_, _, _, _)
RequiredFieldsLoop(errors, fields, fm, path) ==
    IF fields = <<>> THEN errors
    ELSE LET field == Head(fields)
         IN  IF field \notin DOMAIN fm \/ fm[field] = <<>>
             THEN RequiredFieldsLoop(Append(errors, MissingFieldError(field, path)),
                                     Tail(fields), fm, path)
             ELSE RequiredFieldsLoop(errors, Tail(fields), fm, path)

\* The status test, were it skipped once an error has been found.
StatusCheck_first_error_only(errors, fm, path) ==
    IF errors = <<>> /\ <<"status">> \in DOMAIN fm /\ fm[<<"status">>] \notin Range(VALID_STATUSES)
    THEN Append(errors, InvalidStatusError(fm[<<"status">>], path))
    ELSE errors

\* if 'status' in fm and fm['status'] not in VALID_STATUSES: errors.append(...)
StatusCheck(errors, fm, path) ==
    IF <<"status">> \in DOMAIN fm /\ fm[<<"status">>] \notin Range(VALID_STATUSES)
    THEN Append(errors, InvalidStatusError(fm[<<"status">>], path))
    ELSE errors

\* The issue test, were TODO missing from its list.
IssueCheck_without_todo(errors, fm, path) ==
    IF <<"issue">> \in DOMAIN fm /\ fm[<<"issue">>] \in Range(ISSUE_PLACEHOLDERS) \ {<<"TODO">>}
    THEN Append(errors, PlaceholderIssueError(path))
    ELSE errors

\* if 'issue' in fm: if issue in [...]: errors.append(...)
IssueCheck(errors, fm, path) ==
    IF <<"issue">> \in DOMAIN fm /\ fm[<<"issue">>] \in Range(ISSUE_PLACEHOLDERS)
    THEN Append(errors, PlaceholderIssueError(path))
    ELSE errors

\* validate_spec(path), reading the file system files
validate_spec(files, path) ==
    IF ~files[path].exists THEN <<FileNotFoundError(path)>>
    ELSE LET fm == parse_frontmatter_validate(files[path].text)
         IN  IF fm.type = "NoneType" THEN <<MissingFrontmatterError(path)>>
             ELSE IssueCheck(
                      StatusCheck(
                          RequiredFieldsLoop(<<>>, REQUIRED_FIELDS, fm.items, path),
                          fm.items, path),
                      fm.items, path)

----------------------------------------------------------------------------
(* Python's order on strings, sorted() and str() of a number.               *)

\* ord() of a token's first character.  Texts that are compared hold digits
\* and dashes, one per token, or tokens that differ in their first character.
Ord(c) ==
    CASE c = " " -> 32 [] c = "-" -> 45
      [] c = "0" -> 48 [] c = "1" -> 49 [] c = "2" -> 50 [] c = "3" -> 51
      [] c = "4" -> 52 [] c = "5" -> 53 [] c = "6" -> 54 [] c = "7" -> 55
      [] c = "8" -> 56 [] c = "9" -> 57
      [] c = "A" -> 65 [] c = "B" -> 66 [] c = "D" -> 68 [] c = "E" -> 69
      [] c = "T" -> 84 [] c = "Unknown" -> 85
      [] c = "a" -> 97 [] c = "b" -> 98 [] c = "c" -> 99
      [] OTHER -> 122

\* a < b for strings: at the first position where they differ a ends, or
\* holds the smaller character.
TextLess(a, b) ==
    \E n \in 1..(Len(a) + 1) :
        /\ n <= Len(b)
        /\ \A m \in 1..(n - 1) : a[m] = b[m]
        /\ n <= Len(a) => Ord(a[n]) < Ord(b[n])

\* No sorting: the items in the order they were appended.
Sorted_as_appended(items, keys) == items

\* sorted(items, key=...), keys[i] being the key of items[i]: ascending and
\* stable (equal keys keep their order).
Sorted(items, keys) ==
    LET n       == Len(items)
        Rank(i) == Cardinality({j \in 1..n : \/ TextLess(keys[j], keys[i])
                                             \/ (keys[j] = keys[i] /\ j < i)}) + 1
    IN  [r \in 1..n |-> items[CHOOSE i \in 1..n : Rank(i) = r]]

Digit(d) ==
    CASE d = 0 -> "0" [] d = 1 -> "1" [] d = 2 -> "2" [] d = 3 -> "3" [] d = 4 -> "4"
      [] d = 5 -> "5" [] d = 6 -> "6" [] d = 7 -> "7" [] d = 8 -> "8" [] d = 9 -> "9"

\* str(n) for n >= 0
RECURSIVE IntStr(_)
IntStr(n) == IF n < 10 THEN <<Digit(n)>> ELSE IntStr(n \div 10) \o <<Digit(n % 10)>>

\* [f(x) for x in list]
Map(list, f(_)) == [i \in 1..Len(list) |-> f(list[i])]

\* body(value), the value computed once
Let(value, body(_)) == CHOOSE r \in {body(x) : x \in {value}} : TRUE

\* The concatenation of the lists of a list.
RECURSIVE Flatten(_)
Flatten(lists) == IF lists = <<>> THEN <<>> ELSE Head(lists) \o Flatten(Tail(lists))

----------------------------------------------------------------------------
(* generate-index.py                                                        *)

\* The record appended to by_status[status] for one file (lines 38-58).
IndexEntry(files, spec_path) ==
    LET fm == parse_frontmatter_index(files[spec_path].text).items
    IN  [status  |-> DictGet(fm, <<"status">>, <<"active">>),
         title   |-> DictGet(fm, <<"title">>, PathStem(spec_path)),
         type    |-> DictGet(fm, <<"type">>, <<"feature">>),
         path    |-> RelStr(spec_path),
         domain  |-> DictGet(fm, <<"domain">>, <<"Unknown">>),
         issue   |-> DictGet(fm, <<"issue">>, <<>>),
         created |-> DictGet(fm, <<"created">>, <<>>)]

\* by_status[status]: the entries of that status, in the order they were appended
ByStatus(entries, status) == SelectSeq(entries, LAMBDA e : e.status = status)

\* One table row (lines 86-89, 105-108, 124-127).
IndexRow(spec) ==
    LET issue_link == IF spec.issue # <<>> THEN <<"[">> \o spec.issue \o <<"](#)">> ELSE <<>>
    IN  <<"| ">> \o spec.title \o <<" | ">> \o spec.type \o <<" | [">> \o spec.path
            \o <<"](">> \o spec.path \o <<") | ">> \o spec.domain \o <<" | ">> \o issue_link
            \o <<" | ">> \o spec.created \o <<" |">>

\* for spec in sorted(bucket, key=lambda x: x['created']): lines.append(row)
IndexRows(bucket) == Map(Sorted(bucket, Map(bucket, LAMBDA e : e.created)), IndexRow)

NoActiveRow == <<"| *No active changes yet* | | | | | |">>

NoneLine == <<"*None*">>

\* The lines of the Active section (lines 77-93).
IndexActiveSection(bucket) ==
    << <<"## Active Changes">>,
       <<>>,
       <<"| Change | Type | Spec | Domain | Issue | Since |">>,
       <<"|--------|------|------|--------|-------|-------|">> >>
      \o (IF bucket # <<>> THEN IndexRows(bucket) ELSE <<NoActiveRow>>)
      \o << <<>> >>

\* The lines of the Deprecated section (lines 96-112).
IndexDeprecatedSection(bucket) ==
    << <<"## Deprecated">>, <<>> >>
      \o (IF bucket # <<>>
          THEN << <<"| Change | Type | Spec | Domain | Issue | Deprecated |">>,
                  <<"|--------|------|------|--------|-------|------------|">> >>
                 \o IndexRows(bucket)
          ELSE <<NoneLine>>)
      \o << <<>> >>

\* The Archived section, were nothing written for an empty bucket.
IndexArchivedSection_no_placeholder(bucket) ==
    << <<"## Archived">>, <<>> >>
      \o (IF bucket # <<>>
          THEN << <<"| Change | Type | Spec | Domain | Issue | Archived |">>,
                  <<"|--------|------|------|--------|-------|----------|">> >>
                 \o IndexRows(bucket)
          ELSE <<>>)

\* The lines of the Archived section (lines 115-129).
IndexArchivedSection(bucket) ==
    << <<"## Archived">>, <<>> >>
      \o (IF bucket # <<>>
          THEN << <<"| Change | Type | Spec | Domain | Issue | Archived |">>,
                  <<"|--------|------|------|--------|-------|----------|">> >>
                 \o IndexRows(bucket)
          ELSE <<NoneLine>>)

\* The `Total:' line, were the total the sum of the three counts.
IndexTotalLine_sum_of_tables(total, active, deprecated, archived) ==
    <<"Total: ">> \o IntStr(active + deprecated + archived) \o <<" specs (Active: ">>
        \o IntStr(active) \o <<", Deprecated: ">> \o IntStr(deprecated) \o <<", Archived: ">>
        \o IntStr(archived) \o <<")">>

\* The `Total:' line (line 72).
IndexTotalLine(total, active, deprecated, archived) ==
    <<"Total: ">> \o IntStr(total) \o <<" specs (Active: ">> \o IntStr(active)
        \o <<", Deprecated: ">> \o IntStr(deprecated) \o <<", Archived: ">>
        \o IntStr(archived) \o <<")">>

\* The list `lines' generate_index builds from the entries (lines 60-129);
\* total is len(specs), date the clock's date.
IndexRender(entries, total, date) ==
    LET active     == ByStatus(entries, <<"active">>)
        deprecated == ByStatus(entries, <<"deprecated">>)
        archived   == ByStatus(entries, <<"archived">>)
    IN  << <<"# Spec Index">>,
           <<>>,
           <<"Last updated: ">> \o date,
           <<>>,
           IndexTotalLine(total, Len(active), Len(deprecated), Len(archived)),
           <<>> >>
          \o IndexActiveSection(active)
          \o IndexDeprecatedSection(deprecated)
          \o IndexArchivedSection(archived)

\* The entries of by_status, in the order they were appended (lines 36-58).
RECURSIVE IndexEntries(_, _)
IndexEntries(files, specs) ==
    IF specs = <<>> THEN <<>>
    ELSE <<IndexEntry(files, Head(specs))>> \o IndexEntries(files, Tail(specs))

IndexLines(files, specs, date) ==
    Let(IndexEntries(files, specs), LAMBDA entries : IndexRender(entries, Len(specs), date))

\* generate_index(specs_dir): '\n'.join(lines) + '\n'
generate_index(files, specs, date) == Join(IndexLines(files, specs, date), NL) \o <<NL>>

----------------------------------------------------------------------------
(* generate-snapshot.py                                                     *)

\* For the match of r'^---\s*\n.*?\n---\s*\n' (line 32): the numbers k of
\* characters the second \s* may take when `\n---' is found at j.
HeaderEndSkips(content, j) ==
    {k \in 0..(IF HasAt(content, j, NLDELIM) THEN Len(content) - j - 4 ELSE -1) :
        /\ \A i \in (j + 4)..(j + 3 + k) : IsSpace(content[i])
        /\ content[j + 4 + k] = NL}

\* ... the places j of `\n---' when the first \s* takes k characters.
HeaderEnds(content, k) ==
    {j \in (5 + k)..Len(content) : HeaderEndSkips(content, j) # {}}

\* ... the numbers k of characters the first \s* may take.
HeaderStartSkips(content) ==
    {k \in 0..(IF HasAt(content, 1, DELIM) THEN Len(content) - 4 ELSE -1) :
        /\ \A i \in 4..(3 + k) : IsSpace(content[i])
        /\ content[4 + k] = NL
        /\ HeaderEnds(content, k) # {}}

\* re.sub(r'^---\s*\n.*?\n---\s*\n', '', content, flags=re.DOTALL): the
\* content without the match at its start (greedy \s*, lazy .*?).
RemoveFrontmatter(content) ==
    IF HeaderStartSkips(content) = {} THEN content
    ELSE LET k1s == HeaderStartSkips(content)
             k1  == CHOOSE x \in k1s : \A y \in k1s : y <= x
             js  == HeaderEnds(content, k1)
             j   == CHOOSE x \in js : \A y \in js : x <= y
             k2s == HeaderEndSkips(content, j)
             k2  == CHOOSE x \in k2s : \A y \in k2s : y <= x
         IN  SubSeq(content, j + 4 + k2 + 1, Len(content))

OVERVIEW == <<"#", "#", " ", "Overview">>

\* For r'## Overview\s*\n(.*?)(?=\n##|$)' (line 35): the numbers k of
\* characters \s* may take when `## Overview' is found at p.
OverviewSkips(content, p) ==
    {k \in 0..(IF HasAt(content, p, OVERVIEW) THEN Len(content) - p - 4 ELSE -1) :
        /\ \A i \in (p + 4)..(p + 3 + k) : IsSpace(content[i])
        /\ content[p + 4 + k] = NL}

\* (?=\n##|$) at position e: a line break and `##' follow, or the string
\* ends there, or only its last line break follows.
OverviewEndAt(content, e) ==
    \/ HasAt(content, e, <<NL, "#", "#">>)
    \/ e = Len(content) + 1
    \/ (e = Len(content) /\ content[e] = NL)

\* extract_overview(content)
extract_overview(content) ==
    LET body == RemoveFrontmatter(content)
        ps   == {p \in 1..Len(body) : OverviewSkips(body, p) # {}}
    IN  IF ps = {} THEN <<>>
        ELSE LET p  == CHOOSE x \in ps : \A y \in ps : x <= y
                 ks == OverviewSkips(body, p)
                 k  == CHOOSE x \in ks : \A y \in ks : y <= x
                 g  == p + 4 + k + 1
                 es == {e \in g..(Len(body) + 1) : OverviewEndAt(body, e)}
                 e  == CHOOSE x \in es : \A y \in es : x <= y
             IN  Strip(SubSeq(body, g, e - 1))

\* str.lower() of one token
Lower(c) ==
    CASE c = "A" -> "a" [] c = "B" -> "b" [] c = "D" -> "d" [] c = "E" -> "e"
      [] c = "T" -> "t" [] c = "Unknown" -> "unknown"
      [] OTHER -> c

\* domain.lower().replace(' ', '-')
Anchor(domain) ==
    [i \in 1..Len(domain) |-> IF Lower(domain[i]) = " " THEN "-" ELSE Lower(domain[i])]

\* The test of line 52, were a missing status read as active (as the index
\* builder reads it).
SnapshotKeeps_default_active(files, spec_path) ==
    LET fm == parse_frontmatter_snapshot(files[spec_path].text).items
    IN  DictGet(fm, <<"status">>, <<"active">>) = <<"active">>

\* Whether the file is kept (line 52): fm.get('status') == 'active'
SnapshotKeeps(files, spec_path) ==
    LET fm == parse_frontmatter_snapshot(files[spec_path].text).items
    IN  <<"status">> \in DOMAIN fm /\ fm[<<"status">>] = <<"active">>

\* The record appended to specs for a kept file (lines 53-60).
SnapshotEntry(files, spec_path) ==
    LET fm == parse_frontmatter_snapshot(files[spec_path].text).items
    IN  [title    |-> DictGet(fm, <<"title">>, PathStem(spec_path)),
         path     |-> RelStr(spec_path),
         domain   |-> DictGet(fm, <<"domain">>, <<"Unknown">>),
         issue    |-> DictGet(fm, <<"issue">>, <<>>),
         overview |-> extract_overview(files[spec_path].text)]

\* The lines of one spec's subsection (lines 100-115).
SnapshotSpecLines(spec) ==
    << <<"#### ">> \o spec.title,
       <<"**Spec:** [">> \o spec.path \o <<"](">> \o spec.path \o <<")">> >>
      \o (IF spec.issue # <<>>
          THEN << <<"**Issue:** [">> \o spec.issue \o <<"](#)">> >> ELSE <<>>)
      \o << <<>> >>
      \o (IF spec.overview # <<>> THEN <<spec.overview, <<>> >> ELSE <<>>)
      \o << <<"---">>, <<>> >>

\* The lines of one domain's section (lines 94-115).
SnapshotDomainLines(specs, domain) ==
    LET mine == SelectSeq(specs, LAMBDA e : e.domain = domain)
    IN  << <<"### ">> \o domain, <<>> >>
          \o Flatten(Map(Sorted(mine, Map(mine, LAMBDA e : e.title)), SnapshotSpecLines))

\* sorted(by_domain.keys()): the domains in ascending order
RECURSIVE SortedSet(_)
SortedSet(S) ==
    IF S = {} THEN <<>>
    ELSE LET least == CHOOSE x \in S : \A y \in S : y = x \/ TextLess(x, y)
         IN  <<least>> \o SortedSet(S \ {least})

\* The list `lines' generate_snapshot builds from specs (lines 62-121).
SnapshotRender(specs, date) ==
    LET domains == SortedSet({specs[i].domain : i \in 1..Len(specs)})
    IN  << <<"# Product Snapshot">>,
           <<>>,
           <<"Generated: ">> \o date,
           <<>>,
           <<"This document represents the current active state of the product by compiling all active specifications.">>,
           <<>> >>
          \o (IF domains # <<>>
              THEN << <<"## Table of Contents">>, <<>> >>
                     \o Map(domains, LAMBDA d : <<"- [">> \o d \o <<"](#">> \o Anchor(d) \o <<")">>)
                     \o << <<>> >>
              ELSE <<>>)
          \o << <<"## By Domain">>, <<>> >>
          \o Flatten(Map(domains, LAMBDA d : SnapshotDomainLines(specs, d)))
          \o (IF domains = <<>> THEN << <<"*No active specs yet*">>, <<>> >> ELSE <<>>)

\* The list `specs' of the kept files (lines 44-60).
RECURSIVE SnapshotSpecs(_, _)
SnapshotSpecs(files, paths) ==
    IF paths = <<>> THEN <<>>
    ELSE (IF SnapshotKeeps(files, Head(paths))
          THEN <<SnapshotEntry(files, Head(paths))>> ELSE <<>>)
           \o SnapshotSpecs(files, Tail(paths))

SnapshotLines(files, paths, date) ==
    Let(SnapshotSpecs(files, paths), LAMBDA specs : SnapshotRender(specs, date))

\* generate_snapshot(specs_dir): '\n'.join(lines)
generate_snapshot(files, paths, date) == Join(SnapshotLines(files, paths, date), NL)

----------------------------------------------------------------------------
(* validate-spec.py main                                                    *)

\* The loop, were it left at the first file that has errors.
RECURSIVE AllErrorsLoop_stops_at_errors(_, _, _)
AllErrorsLoop_stops_at_errors(all_errors, files, specs) ==
    IF specs = <<>> \/ all_errors # <<>> THEN all_errors
    ELSE AllErrorsLoop_stops_at_errors(all_errors \o validate_spec(files, Head(specs)),
                                       files, Tail(specs))

\* for spec in specs: all_errors.extend(validate_spec(spec))
RECURSIVE AllErrorsLoop(_, _, _)
AllErrorsLoop(all_errors, files, specs) ==
    IF specs = <<>> THEN all_errors
    ELSE AllErrorsLoop(all_errors \o validate_spec(files, Head(specs)), files, Tail(specs))

\* print("Validation errors:"); for error in errors: print(f"  - {error}")
ErrorReport(errors) == << <<"Validation errors:">> >> \o Map(errors, LAMBDA e : <<"  - ">> \o e)

----------------------------------------------------------------------------
(* The documents the single-document specification draws from.              *)

\* Longest free-form document, in lines.
MaxLines == 3

\* Longest header block of the block documents, in lines.
MaxBlockLines == 3

\* Most header fields of a header document that are absent, empty or wrong.
MaxBadFields == 2

\* `key: value', or `key:' for an empty value
KV(key, value) == IF value = <<>> THEN <<key, ":">> ELSE <<key, ":", " ">> \o value

\* A choice for one field: <<>> (no line for it) or <<value>> (one line).
FieldOpts(values) == {<<>>} \cup {<<v>> : v \in values}

FieldLines(key, opt) == IF opt = <<>> THEN <<>> ELSE <<KV(key, opt[1])>>

\* 1 when the choice leaves the field absent or gives it a value outside good.
BadField(opt, good) == IF opt = <<>> \/ opt[1] \notin good THEN 1 ELSE 0

StatusValues ==
    {<<>>, <<"active">>, <<"deprecated">>, <<"superseded">>, <<"archived">>,
     <<"bogus">>, <<"Active">>}

IssueValues ==
    {<<>>, <<"PROJ", "-", "XXX">>, <<"[PROJ", "-", "XXX]">>, <<"TODO">>, <<"{{ISSUE}}">>,
     <<"ABC", "-", "1">>}

HeaderDoc(t, s, d, i, c, u) ==
    Join(<<DELIM>> \o FieldLines("title", t) \o FieldLines("status", s)
            \o FieldLines("domain", d) \o FieldLines("issue", i)
            \o FieldLines("created", c) \o FieldLines("updated", u)
            \o <<DELIM, <<>>, <<"body">> >>, NL)

\* Documents with a well-formed header block in which at most MaxBadFields of
\* the six fields are absent, empty or wrong.
HeaderDocs ==
    {HeaderDoc(x[1], x[2], x[3], x[4], x[5], x[6]) :
        x \in {y \in FieldOpts({<<>>, <<"T">>}) \X FieldOpts(StatusValues)
                    \X FieldOpts({<<>>, <<"D">>}) \X FieldOpts(IssueValues)
                    \X FieldOpts({<<>>, <<"2", "3">>}) \X FieldOpts({<<>>, <<"2", "4">>}) :
                 BadField(y[1], {<<"T">>})
                   + BadField(y[2], {<<"active">>, <<"deprecated">>, <<"superseded">>,
                                     <<"archived">>})
                   + BadField(y[3], {<<"D">>}) + BadField(y[4], {<<"ABC", "-", "1">>})
                   + BadField(y[5], {<<"2", "3">>}) + BadField(y[6], {<<"2", "4">>})
                   <= MaxBadFields}}

\* The lines free-form documents are made of.
FreeLines ==
    {DELIM,                                   \* ---
     DELIM \o <<" ">>,                        \* ---, then a blank
     DELIM \o <<"x">>,                        \* ---x
     <<>>,                                    \* an empty line
     <<"k", ":", " ", "v">>,                  \* k: v
     <<" ", "k", " ", ":", "a", ":", "b">>,   \*  k :a:b
     <<"word">>}                              \* a line without a colon

\* Every document of at most MaxLines lines of FreeLines, joined by line breaks.
FreeDocs ==
    {Join(ls, NL) : ls \in UNION {[1..n -> FreeLines] : n \in 0..MaxLines}}

\* The lines the header blocks of the block documents are made of.
BlockLines ==
    {<<"k", ":", " ", "v">>,                  \* k: v
     <<" ", "k", " ", ":", "a", ":", "b">>,   \*  k :a:b
     <<"j", ":">>,                            \* j:
     <<>>,                                    \* an empty line
     <<"word">>}                              \* a line without a colon

\* Every document that is a header block of 1..MaxBlockLines lines of BlockLines.
BlockDocs ==
    {Join(<<DELIM>> \o ls \o <<DELIM>>, NL) :
        ls \in UNION {[1..n -> BlockLines] : n \in 1..MaxBlockLines}}

Docs == HeaderDocs \cup FreeDocs \cup BlockDocs

----------------------------------------------------------------------------
(* The documents the directory specification draws from.                    *)

Date(y, m, d) == y \o <<"-">> \o m \o <<"-">> \o d

D2021 == Date(<<"2", "0", "2", "1">>, <<"0", "3">>, <<"0", "1">>)

D2022 == Date(<<"2", "0", "2", "2">>, <<"0", "5">>, <<"0", "5">>)

D2023 == Date(<<"2", "0", "2", "3">>, <<"0", "1">>, <<"0", "1">>)

D2024 == Date(<<"2", "0", "2", "4">>, <<"0", "1">>, <<"0", "1">>)

D2025 == Date(<<"2", "0", "2", "5">>, <<"1", "0">>, <<"0", "9">>)

\* A document: a header block of the lines, then the body lines.
Doc(header, body) == Join(<<DELIM>> \o header \o <<DELIM>> \o body, NL)

OverviewBody == << <<>>, OVERVIEW, <<"text">>, <<>>, <<"#", "#", " ", "Next">>, <<"more">> >>

\* A valid active spec, created 2024-01-01.
DocActive24 ==
    Doc(<< KV("title", <<"B">>), KV("status", <<"active">>), KV("domain", <<"D">>),
           KV("issue", <<"ABC", "-", "1">>), KV("created", D2024), KV("updated", D2025) >>,
        OverviewBody)

\* An active spec created 2023-01-01, issue TODO, no domain, no updated.
DocActive23 ==
    Doc(<< KV("title", <<"A">>), KV("status", <<"active">>), KV("issue", <<"TODO">>),
           KV("created", D2023) >>,
        << OVERVIEW, <<"#", "#", " ", "Next">>, <<"more">> >>)

\* No header block; a body line that looks like a status.
DocNoHeader == Join(<< <<"#", " ", "Title">>, KV("status", <<"active">>) >>, NL)

\* status: Active
DocCapital ==
    Doc(<< KV("title", <<"T">>), KV("status", <<"Active">>), KV("created", D2023) >>,
        OverviewBody)

\* A header block without status.
DocNoStatus == Doc(<< KV("domain", <<"E">>), KV("created", D2025) >>, OverviewBody)

DocDeprecated22 ==
    Doc(<< KV("title", <<"T">>), KV("status", <<"deprecated">>), KV("created", D2022) >>, <<>>)

DocDeprecated21 ==
    Doc(<< KV("status", <<"deprecated">>), KV("type", <<"bugfix">>), KV("created", D2021) >>,
        <<>>)

DocArchived22 == Doc(<< KV("status", <<"archived">>), KV("created", D2022) >>, <<>>)

DocArchived21 ==
    Doc(<< KV("title", <<"A">>), KV("status", <<"archived">>), KV("created", D2021) >>, <<>>)

\* A valid superseded spec.
DocSuperseded ==
    Doc(<< KV("title", <<"T">>), KV("status", <<"superseded">>), KV("domain", <<"D">>),
           KV("issue", <<"ABC", "-", "1">>), KV("created", D2022), KV("updated", D2023) >>,
        <<>>)

\* The documents a.md and sub/b.md are drawn from (c.md draws from the 2021
\* documents, which pair with the 2022 ones in the Deprecated and Archived
\* tables).
DirDocs ==
    {DocActive24, DocActive23, DocNoHeader, DocCapital, DocNoStatus, DocDeprecated22,
     DocArchived22, DocSuperseded}

----------------------------------------------------------------------------
(* The scaffolders: scaffolding.py and scaffold.py.  A component token      *)
(* (`server', `server:api') is a text whose colons and dashes are tokens of *)
(* their own.  A path below target_dir, or below a template directory, is   *)
(* the sequence of its segments, each a text; as a string it is joined with *)
(* `/'.  A configuration is a function from the keys it holds to their      *)
(* values.                                                                  *)

\* The result of parse_component for a token without a colon has name = None:
\* has_name tells the two forms apart.
parse_component(component) ==
    IF \E n \in 1..Len(component) : component[n] = ":"
    THEN LET i              == IndexOf(component, ":")
             component_type == SubSeq(component, 1, i - 1)
             name           == SubSeq(component, i + 1, Len(component))
         IN  [component_type |-> component_type, has_name |-> TRUE, name |-> name,
              dir_name |-> component_type \o <<"-">> \o name]
    ELSE [component_type |-> component, has_name |-> FALSE, name |-> <<>>,
          dir_name |-> component]

\* get_components_by_type(components, component_type)
RECURSIVE get_components_by_type(_, _)
get_components_by_type(components, component_type) ==
    IF components = <<>> THEN <<>>
    ELSE (IF parse_component(Head(components)).component_type = component_type
          THEN <<parse_component(Head(components))>> ELSE <<>>)
           \o get_components_by_type(Tail(components), component_type)

\* {pc["component_type"] for pc in parsed_components}
ComponentTypes(components) ==
    {parse_component(components[n]).component_type : n \in 1..Len(components)}

\* A replace that stops after the first occurrence (content.replace(var,
\* value, 1)).
RECURSIVE Replace_first_occurrence(_, _, _)
Replace_first_occurrence(content, var, value) ==
    IF content = <<>> THEN <<>>
    ELSE IF Head(content) = var THEN value \o Tail(content)
    ELSE <<Head(content)>> \o Replace_first_occurrence(Tail(content), var, value)

\* content.replace(var, value): var is one token of the content
RECURSIVE Replace(_, _, _)
Replace(content, var, value) ==
    IF content = <<>> THEN <<>>
    ELSE (IF Head(content) = var THEN value ELSE <<Head(content)>>)
           \o Replace(Tail(content), var, value)

\* substitute_variables(content, config): the three replacements, in the
\* order of the dict
substitute_variables(content, config) ==
    Replace(Replace(Replace(content,
                            "{{PROJECT_NAME}}", config["project_name"]),
                    "{{PROJECT_DESCRIPTION}}", config["project_description"]),
            "{{PRIMARY_DOMAIN}}", config["primary_domain"])

\* The suffixes copy_template_file substitutes in.
SUBSTITUTED_SUFFIXES ==
    {".md", ".json", ".yaml", ".yml", ".ts", ".tsx", ".html", ".css", ".js"}

\* src.suffix of a path whose name is <<stem, suffix>>
PathSuffix(p) == PathName(p)[Len(PathName(p))]

\* dest.parent
Parent(p) == SubSeq(p, 1, Len(p) - 1)

\* The steps on the file system: path.mkdir(parents=True, exist_ok=True)
\* (listed when create_directory appends the path to created_dirs) and a
\* write of a file, which is appended to created_files.
MkDir(path, listed) == [op |-> "mkdir", path |-> path, content |-> <<>>, listed |-> listed]

WriteFile(path, content) == [op |-> "write", path |-> path, content |-> content, listed |-> TRUE]

\* The steps of copy_template_file(src, dest, config) for a source file of
\* the given relative path and content.
copy_template_file(src_path, src_content, dest, config) ==
    << MkDir(Parent(dest), FALSE),
       WriteFile(dest,
                 IF PathSuffix(src_path) \in SUBSTITUTED_SUFFIXES
                 THEN substitute_variables(src_content, config)
                 ELSE src_content) >>

\* A create_directory that prints its line and makes no directory.
create_directory_prints_only(d) == <<>>

\* create_directory(target / d, config); created_dirs.append(d)
create_directory(d) == <<MkDir(d, TRUE)>>

\* for d in dirs: create_directory(target / d, config); created_dirs.append(d)
RECURSIVE CreateDirectories(_)
CreateDirectories(paths) ==
    IF paths = <<>> THEN <<>>
    ELSE create_directory(Head(paths)) \o CreateDirectories(Tail(paths))

\* A template directory: whether it exists and its files (relative path to
\* content).
NoTree == [exists |-> FALSE, files |-> [p \in {} |-> <<>>]]

\* `if src.exists(): copy_template_file(src, target / dest, config)' for
\* each (src name, dest) of a manifest.
RECURSIVE CopyManifest(_, _, _)
CopyManifest(tree, manifest, config) ==
    IF manifest = <<>> \/ ~tree.exists THEN <<>>
    ELSE (IF Head(manifest)[1] \in DOMAIN tree.files
          THEN copy_template_file(Head(manifest)[1], tree.files[Head(manifest)[1]],
                                  Head(manifest)[2], config)
          ELSE <<>>)
           \o CopyManifest(tree, Tail(manifest), config)

\* `for src_file in templates.rglob("*"): if src_file.is_file(): ...' for the
\* files in the order the enumeration yields them, copied below dest_dir.
RECURSIVE CopyTree(_, _, _, _)
CopyTree(tree, order, dest_dir, config) ==
    IF order = <<>> THEN <<>>
    ELSE copy_template_file(Head(order), tree.files[Head(order)],
                            dest_dir \o Head(order), config)
           \o CopyTree(tree, Tail(order), dest_dir, config)

\* The content of the root .gitignore (a text literal).
GITIGNORE == <<"node_modules/", NL, ".env", NL, ".DS_Store", NL, "dist/", NL, "*.log", NL>>

\* The content of components/contract/.gitignore
CONTRACT_GITIGNORE == <<"node_modules/", NL, "generated/", NL>>

\* The lines of ci_content, a text literal without a placeholder.
CI_LINES ==
    << "name: CI", "", "on:", "  push:", "    branches: [main]", "  pull_request:",
       "    branches: [main]", "", "jobs:", "  build:", "    runs-on: ubuntu-latest", "",
       "    steps:", "      - uses: actions/checkout@v4", "", "      - name: Setup Node.js",
       "        uses: actions/setup-node@v4", "        with:", "          node-version: '20'",
       "          cache: 'npm'", "", "      - name: Install dependencies",
       "        run: npm install --workspaces", "", "      - name: Type check",
       "        run: npm run typecheck", "", "      - name: Lint", "        run: npm run lint",
       "", "      - name: Test", "        run: npm run test", "", "      - name: Build",
       "        run: npm run build" >>

\* ci_content: every line of the literal, each ended by a line break
RECURSIVE EndLines(_)
EndLines(lines) ==
    IF lines = <<>> THEN <<>> ELSE <<Head(lines), NL>> \o EndLines(Tail(lines))

CI_CONTENT == EndLines(CI_LINES)

P_gitignore == << <<".gitignore">> >>

P_overview == << <<"specs">>, <<"architecture">>, <<"overview", ".md">> >>

P_workflows == << <<".github">>, <<"workflows">> >>

P_ci == << <<".github">>, <<"workflows">>, <<"ci", ".yaml">> >>

\* components/<dir_name>
ComponentDir(dir_name) == << <<"components">>, dir_name >>

P_contract_gitignore == ComponentDir(<<"contract">>) \o << <<".gitignore">> >>

SPECS_DIRS ==
    << << <<"specs">> >>,
       << <<"specs">>, <<"domain">> >>,
       << <<"specs">>, <<"domain">>, <<"definitions">> >>,
       << <<"specs">>, <<"domain">>, <<"use-cases">> >>,
       << <<"specs">>, <<"architecture">> >>,
       << <<"specs">>, <<"changes">> >>,
       << <<"specs">>, <<"external">> >> >>

CONFIG_DIRS ==
    << ComponentDir(<<"config">>), ComponentDir(<<"config">>) \o << <<"schemas">> >> >>

\* The server subdirectories of scaffolding.py, below components/<dir_name>.
SERVER_SUBDIRS ==
    << << <<"src">>, <<"operator">> >>,
       << <<"src">>, <<"config">> >>,
       << <<"src">>, <<"controller">>, <<"http_handlers">> >>,
       << <<"src">>, <<"model">>, <<"definitions">> >>,
       << <<"src">>, <<"model">>, <<"use-cases">> >>,
       << <<"src">>, <<"dal">> >> >>

\* The server subdirectories of scaffold.py, below components/server.
SERVER_DIRS_LEGACY ==
    << << <<"src">>, <<"app">> >>,
       << <<"src">>, <<"config">> >>,
       << <<"src">>, <<"controller">>, <<"http_handlers">> >>,
       << <<"src">>, <<"model">>, <<"definitions">> >>,
       << <<"src">>, <<"model">>, <<"use-cases">> >>,
       << <<"src">>, <<"dal">> >>,
       << <<"src">>, <<"telemetry">> >> >>

WEBAPP_SUBDIRS ==
    << << <<"src">>, <<"pages">> >>,
       << <<"src">>, <<"components">> >>,
       << <<"src">>, <<"viewmodels">> >>,
       << <<"src">>, <<"models">> >>,
       << <<"src">>, <<"services">> >>,
       << <<"src">>, <<"stores">> >>,
       << <<"src">>, <<"types">> >>,
       << <<"src">>, <<"utils">> >> >>

TESTING_DIRS ==
    << ComponentDir(<<"testing">>) \o << <<"tests">>, <<"integration">> >>,
       ComponentDir(<<"testing">>) \o << <<"tests">>, <<"component">> >>,
       ComponentDir(<<"testing">>) \o << <<"tests">>, <<"e2e">> >>,
       ComponentDir(<<"testing">>) \o << <<"testsuites">> >> >>

\* [base / d for d in subdirs]
Below(base, subdirs) == [n \in 1..Len(subdirs) |-> base \o subdirs[n]]

\* The manifests: (source name below the template directory, destination).
PROJECT_FILES ==
    << << << <<"README", ".md">> >>, << <<"README", ".md">> >> >>,
       << << <<"CLAUDE", ".md">> >>, << <<"CLAUDE", ".md">> >> >>,
       << << <<"package", ".json">> >>, << <<"package", ".json">> >> >> >>

SPEC_FILES ==
    << << << <<"INDEX", ".md">> >>, << <<"specs">>, <<"INDEX", ".md">> >> >>,
       << << <<"SNAPSHOT", ".md">> >>, << <<"specs">>, <<"SNAPSHOT", ".md">> >> >>,
       << << <<"glossary", ".md">> >>, << <<"specs">>, <<"domain">>, <<"glossary", ".md">> >> >> >>

CONFIG_FILE_NAMES ==
    << << <<"config", ".yaml">> >>,
       << <<"config-local", ".yaml">> >>,
       << <<"config-testing", ".yaml">> >>,
       << <<"config-production", ".yaml">> >>,
       << <<"schemas">>, <<"schema", ".json">> >>,
       << <<"schemas">>, <<"ops-schema", ".json">> >>,
       << <<"schemas">>, <<"app-schema", ".json">> >> >>

\* [(cf, target / base / cf) for cf in names]
ManifestBelow(base, names) == [n \in 1..Len(names) |-> <<names[n], base \o names[n]>>]

CONFIG_FILES == ManifestBelow(ComponentDir(<<"config">>), CONFIG_FILE_NAMES)

CONTRACT_FILES ==
    ManifestBelow(ComponentDir(<<"contract">>),
                  << << <<"package", ".json">> >>, << <<"openapi", ".yaml">> >> >>)

\* str.title() of one token
TitleToken(c) ==
    CASE c = "api" -> "Api" [] c = "billing" -> "Billing" [] c = "admin" -> "Admin"
      [] OTHER -> c

\* display_name.title()
Title(name) == [n \in 1..Len(name) |-> TitleToken(name[n])]

\* The head of arch_content (an f-string).
ArchHead(config) ==
    <<"# Architecture Overview", NL, NL, "This document describes the architecture of ">>
        \o config["project_name"] \o <<".", NL, NL, "## Components", NL, NL>>

\* One entry of the description dicts, and its line break (the backquotes
\* around the directory are written as quotes).
DescriptionLine(title, dir, sentence) ==
    <<"- **", title, "** ('components/", dir, "/'): ", sentence, NL>>

\* static_descriptions[comp_type] + "\n" (scaffolding.py); the same four
\* entries of component_descriptions (scaffold.py).
StaticDescription(comp_type) ==
    CASE comp_type = <<"contract">> ->
           DescriptionLine("Contract", "contract", "OpenAPI specifications and type generation")
      [] comp_type = <<"config">> ->
           DescriptionLine("Config", "config", "YAML-based configuration management")
      [] comp_type = <<"helm">> ->
           DescriptionLine("Helm", "helm", "Kubernetes deployment charts")
      [] comp_type = <<"testing">> ->
           DescriptionLine("Testing", "testing", "Testkube test definitions")

\* The line of one server or webapp (scaffolding.py, lines 310 and 316).
InstanceLine(pc, default_name, sentence) ==
    <<"- **">> \o Title(IF pc.name # <<>> THEN pc.name ELSE <<default_name>>)
        \o <<"** ('components/">> \o pc.dir_name \o <<"/'): ", sentence, NL>>

\* `for x in instances: for d in subdirs: create_directory(...)' with
\* subdirs below components/<dir_name>
RECURSIVE InstanceDirectories(_, _)
InstanceDirectories(instances, subdirs) ==
    IF instances = <<>> THEN <<>>
    ELSE CreateDirectories(Below(ComponentDir(Head(instances).dir_name), subdirs))
           \o InstanceDirectories(Tail(instances), subdirs)

\* `for x in instances: arch_content += f"- **..."'
RECURSIVE InstanceLines(_, _, _)
InstanceLines(instances, default_name, sentence) ==
    IF instances = <<>> THEN <<>>
    ELSE InstanceLine(Head(instances), default_name, sentence)
           \o InstanceLines(Tail(instances), default_name, sentence)

\* `for x in instances: for src_file in templates.rglob("*"): ...'
RECURSIVE CopyTrees(_, _, _, _)
CopyTrees(tree, order, instances, config) ==
    IF instances = <<>> \/ ~tree.exists THEN <<>>
    ELSE CopyTree(tree, order, ComponentDir(Head(instances).dir_name), config)
           \o CopyTrees(tree, order, Tail(instances), config)

\* `for comp_type in [...]: if comp_type in component_types: arch_content +=
\* static_descriptions[comp_type] + "\n"'
RECURSIVE StaticLines(_, _)
StaticLines(comp_types, component_types) ==
    IF comp_types = <<>> THEN <<>>
    ELSE (IF Head(comp_types) \in component_types
          THEN StaticDescription(Head(comp_types)) ELSE <<>>)
           \o StaticLines(Tail(comp_types), component_types)

\* An overview that lists the components in the order of the config.
ArchContent_in_list_order(config, component_types, server_components, webapp_components) ==
    ArchHead(config)
      \o Flatten([n \in 1..Len(config["components"]) |->
                    LET pc == parse_component(config["components"][n])
                    IN  IF pc.component_type = <<"server">>
                        THEN InstanceLine(pc, "Server",
                                          "Node.js/TypeScript backend with CMDO architecture")
                        ELSE IF pc.component_type = <<"webapp">>
                        THEN InstanceLine(pc, "Webapp",
                                          "React/TypeScript frontend with MVVM pattern")
                        ELSE IF pc.component_type \in {<<"contract">>, <<"config">>,
                                                       <<"helm">>, <<"testing">>}
                        THEN StaticDescription(pc.component_type)
                        ELSE <<>>])

\* arch_content of scaffolding.py (lines 286-316)
ArchContent(config, component_types, server_components, webapp_components) ==
    ArchHead(config)
      \o StaticLines(<< <<"contract">>, <<"config">>, <<"helm">>, <<"testing">> >>,
                     component_types)
      \o InstanceLines(server_components, "Server",
                       "Node.js/TypeScript backend with CMDO architecture")
      \o InstanceLines(webapp_components, "Webapp",
                       "React/TypeScript frontend with MVVM pattern")

\* The steps of scaffold_project(config) of scaffolding.py, in program order;
\* templates are the template directories below skills_dir, backend_order
\* and frontend_order the orders rglob yields their files in.
scaffolding_steps(config, templates, backend_order, frontend_order) ==
    LET components_raw    == config["components"]
        component_types   == ComponentTypes(components_raw)
        server_components == get_components_by_type(components_raw, <<"server">>)
        webapp_components == get_components_by_type(components_raw, <<"webapp">>)
    IN  <<MkDir(<<>>, FALSE), WriteFile(P_gitignore, GITIGNORE)>>
          \o CreateDirectories(SPECS_DIRS)
          \o CreateDirectories(CONFIG_DIRS)
          \o (IF <<"contract">> \in component_types
              THEN create_directory(ComponentDir(<<"contract">>)) ELSE <<>>)
          \o InstanceDirectories(server_components, SERVER_SUBDIRS)
          \o InstanceDirectories(webapp_components, WEBAPP_SUBDIRS)
          \o (IF <<"helm">> \in component_types
              THEN create_directory(ComponentDir(<<"helm">>)) ELSE <<>>)
          \o (IF <<"testing">> \in component_types
              THEN CreateDirectories(TESTING_DIRS) ELSE <<>>)
          \o (IF <<"cicd">> \in component_types THEN create_directory(P_workflows) ELSE <<>>)
          \o CopyManifest(templates["project"], PROJECT_FILES, config)
          \o CopyManifest(templates["specs"], SPEC_FILES, config)
          \o <<WriteFile(P_overview,
                         ArchContent(config, component_types, server_components,
                                     webapp_components))>>
          \o CopyManifest(templates["config"], CONFIG_FILES, config)
          \o (IF <<"contract">> \in component_types
              THEN CopyManifest(templates["contract"], CONTRACT_FILES, config)
                     \o <<WriteFile(P_contract_gitignore, CONTRACT_GITIGNORE)>>
              ELSE <<>>)
          \o CopyTrees(templates["backend"], backend_order, server_components, config)
          \o CopyTrees(templates["frontend"], frontend_order, webapp_components, config)
          \o (IF <<"cicd">> \in component_types
              THEN <<WriteFile(P_ci, CI_CONTENT)>> ELSE <<>>)

\* component_descriptions[comp] + "\n" of scaffold.py
LegacyDescription(comp) ==
    CASE comp = <<"server">> ->
           DescriptionLine("Server", "server",
                           "Node.js/TypeScript backend with 5-layer architecture")
      [] comp = <<"webapp">> ->
           DescriptionLine("Webapp", "webapp", "React/TypeScript frontend with MVVM pattern")
      [] OTHER -> StaticDescription(comp)

\* `for comp in sorted(components): if comp in component_descriptions: ...':
\* comps are the keys of component_descriptions in sorted order.
RECURSIVE LegacyLines(_, _)
LegacyLines(comps, components) ==
    IF comps = <<>> THEN <<>>
    ELSE (IF Head(comps) \in components THEN LegacyDescription(Head(comps)) ELSE <<>>)
           \o LegacyLines(Tail(comps), components)

\* The steps of scaffold_project(config) of scaffold.py, in program order;
\* templates are the directories below template_dir (project, specs,
\* components/config, components/contract, components/server as backend,
\* components/webapp as frontend).
scaffold_steps(config, templates, backend_order, frontend_order) ==
    LET components == Range(config["components"])
        server     == <<[dir_name |-> <<"server">>]>>
        webapp     == <<[dir_name |-> <<"webapp">>]>>
    IN  <<MkDir(<<>>, FALSE), WriteFile(P_gitignore, GITIGNORE)>>
          \o CreateDirectories(SPECS_DIRS)
          \o CreateDirectories(CONFIG_DIRS)
          \o (IF <<"contract">> \in components
              THEN create_directory(ComponentDir(<<"contract">>)) ELSE <<>>)
          \o (IF <<"server">> \in components
              THEN InstanceDirectories(server, SERVER_DIRS_LEGACY) ELSE <<>>)
          \o (IF <<"webapp">> \in components
              THEN InstanceDirectories(webapp, WEBAPP_SUBDIRS) ELSE <<>>)
          \o (IF <<"helm">> \in components
              THEN create_directory(ComponentDir(<<"helm">>)) ELSE <<>>)
          \o (IF <<"testing">> \in components THEN CreateDirectories(TESTING_DIRS) ELSE <<>>)
          \o (IF <<"cicd">> \in components THEN create_directory(P_workflows) ELSE <<>>)
          \o CopyManifest(templates["project"], PROJECT_FILES, config)
          \o CopyManifest(templates["specs"], SPEC_FILES, config)
          \o <<WriteFile(P_overview,
                         ArchHead(config)
                           \o LegacyLines(<< <<"config">>, <<"contract">>, <<"helm">>,
                                             <<"server">>, <<"testing">>, <<"webapp">> >>,
                                          components))>>
          \o CopyManifest(templates["config"], CONFIG_FILES, config)
          \o (IF <<"contract">> \in components
              THEN CopyManifest(templates["contract"], CONTRACT_FILES, config)
                     \o <<WriteFile(P_contract_gitignore, CONTRACT_GITIGNORE)>>
              ELSE <<>>)
          \o (IF <<"server">> \in components
              THEN CopyTrees(templates["backend"], backend_order, server, config) ELSE <<>>)
          \o (IF <<"webapp">> \in components
              THEN CopyTrees(templates["frontend"], frontend_order, webapp, config) ELSE <<>>)
          \o (IF <<"cicd">> \in components THEN <<WriteFile(P_ci, CI_CONTENT)>> ELSE <<>>)

\* A path and the directories above it, target_dir (the empty path) included.
Prefixes(path) == {SubSeq(path, 1, n) : n \in 0..Len(path)}

\* The steps with mkdir(parents=True) without exist_ok: a directory that is
\* there already raises.
RECURSIVE ApplySteps_without_exist_ok(_, _)
ApplySteps_without_exist_ok(tree, steps) ==
    IF steps = <<>> THEN tree
    ELSE LET step == Head(steps)
         IN  IF step.op = "mkdir"
             THEN IF step.path \in tree.dirs \/ step.path \in DOMAIN tree.files
                  THEN [tree EXCEPT !.error = <<"[Errno 17] File exists: ">> \o RelStr(step.path)]
                  ELSE ApplySteps_without_exist_ok(
                           [tree EXCEPT !.dirs = @ \cup Prefixes(step.path)], Tail(steps))
             ELSE IF Parent(step.path) \notin tree.dirs
                  THEN [tree EXCEPT !.error = <<"[Errno 2] No such file or directory: ">>
                                                 \o RelStr(step.path)]
                  ELSE ApplySteps_without_exist_ok(
                           [tree EXCEPT !.files = DictSet(@, step.path, step.content)],
                           Tail(steps))

\* The steps carried out on the tree [dirs, files, error] until one raises:
\* mkdir(parents=True, exist_ok=True) raises when a file is in the way, a
\* write when the parent is no directory or the path is one.  The message
\* names the path (written here relative to target_dir).
RECURSIVE ApplySteps(_, _)
ApplySteps(tree, steps) ==
    IF steps = <<>> THEN tree
    ELSE LET step   == Head(steps)
             at     == step.path \in DOMAIN tree.files
             behind == \E q \in Prefixes(Parent(step.path)) : q \in DOMAIN tree.files
         IN  IF step.op = "mkdir"
             THEN IF at
                  THEN [tree EXCEPT !.error = <<"[Errno 17] File exists: ">> \o RelStr(step.path)]
                  ELSE IF step.path # <<>> /\ behind
                  THEN [tree EXCEPT !.error = <<"[Errno 20] Not a directory: ">>
                                                 \o RelStr(step.path)]
                  ELSE ApplySteps([tree EXCEPT !.dirs = @ \cup Prefixes(step.path)],
                                  Tail(steps))
             ELSE IF behind
                  THEN [tree EXCEPT !.error = <<"[Errno 20] Not a directory: ">>
                                                 \o RelStr(step.path)]
                  ELSE IF Parent(step.path) \notin tree.dirs
                  THEN [tree EXCEPT !.error = <<"[Errno 2] No such file or directory: ">>
                                                 \o RelStr(step.path)]
                  ELSE IF step.path \in tree.dirs
                  THEN [tree EXCEPT !.error = <<"[Errno 21] Is a directory: ">>
                                                 \o RelStr(step.path)]
                  ELSE ApplySteps([tree EXCEPT !.files = DictSet(@, step.path, step.content)],
                                  Tail(steps))

\* The dict scaffold_project returns: created_dirs and created_files are the
\* lengths of the two lists, files is created_files.
NoResult == [success |-> FALSE, created_dirs |-> 0, created_files |-> 0, files |-> <<>>]

ScaffoldResult(steps) ==
    LET created_dirs  == SelectSeq(steps, LAMBDA x : x.op = "mkdir" /\ x.listed)
        created_files == SelectSeq(steps, LAMBDA x : x.op = "write")
    IN  [success |-> TRUE, created_dirs |-> Len(created_dirs),
         created_files |-> Len(created_files),
         files |-> [n \in 1..Len(created_files) |-> created_files[n].path]]

----------------------------------------------------------------------------
(* State: fs is the specs directory (each path's file, or no file),         *)
(* dirExists whether the directory exists, today the date the clock shows,  *)
(* ret what the last call returned or the last run printed and exited with; *)
(* disk is what a scaffolder reads and writes (the template trees, the      *)
(* directories and the files below target_dir), run its last run.           *)

NoRet ==
    [call |-> "none", script |-> "none", path |-> <<>>, value |-> PyNone,
     errors |-> <<>>, code |-> 0, stdout |-> <<>>]

\* No template tree and an empty place for target_dir; no run yet.
NoDisk == [templates |-> <<>>, dirs |-> {}, files |-> <<>>]

NoRun ==
    [script |-> "none", given |-> [found |-> FALSE, config |-> <<>>], config |-> <<>>,
     code |-> 0, stderr |-> <<>>, result |-> NoResult, steps |-> <<>>]

Today == <<"2", "0", "2", "6", "-", "1", "1", "-", "0", "4">>

\* One document in a.md, nothing else.
InitDoc ==
    /\ \E text \in Docs : fs = [p \in AllPaths |-> IF p = P_a THEN File(text) ELSE NoFile]
    /\ dirExists = TRUE
    /\ today = Today
    /\ ret = NoRet
    /\ disk = NoDisk
    /\ run = NoRun

\* A direct call of one script's parse_frontmatter on a file's content
\* (one call per run: the result slot is empty).
CallParseFrontmatter ==
    /\ ret = NoRet
    /\ \E p \in AllPaths, script \in {"index", "snapshot", "validate"} :
          /\ fs[p].exists
          /\ ret' = [NoRet EXCEPT
                       !.call = "parse_frontmatter", !.script = script, !.path = p,
                       !.value =
                           CASE script = "index"    -> parse_frontmatter_index(fs[p].text)
                             [] script = "snapshot" -> parse_frontmatter_snapshot(fs[p].text)
                             [] script = "validate" -> parse_frontmatter_validate(fs[p].text)]
    /\ UNCHANGED <<fs, dirExists, today, disk, run>>

\* A direct call of validate_spec(path) (one call per run).
CallValidateSpec ==
    /\ ret = NoRet
    /\ \E p \in {P_a, P_b} :
          ret' = [NoRet EXCEPT !.call = "validate_spec", !.script = "validate", !.path = p,
                               !.errors = validate_spec(fs, p)]
    /\ UNCHANGED <<fs, dirExists, today, disk, run>>

NextDoc == CallParseFrontmatter \/ CallValidateSpec

SpecDoc == InitDoc /\ [][NextDoc]_vars

\* The directory does not exist, or it holds a.md and sub/b.md with documents
\* of docs (or without them), c.md with a document of third (or without it),
\* a glossary and a file that is no .md file, and no INDEX.md or SNAPSHOT.md
\* yet.
InitFiles(docs, third) ==
    /\ dirExists \in BOOLEAN
    /\ IF dirExists
       THEN \E f \in [{P_a, P_b} -> {NoFile} \cup {File(d) : d \in docs}],
               c \in {NoFile} \cup {File(d) : d \in third} :
              /\ fs = [p \in AllPaths |->
                         CASE p \in {P_a, P_b}   -> f[p]
                           [] p = P_c               -> c
                           [] p = P_index           -> NoFile
                           [] p = P_snapshot        -> NoFile
                           [] p = P_glossary        -> File(DocActive23)
                           [] p = P_notes           -> File(DocActive24)]
       ELSE fs = [p \in AllPaths |-> NoFile]
    /\ today = Today
    /\ ret = NoRet
    /\ disk = NoDisk
    /\ run = NoRun

InitDir == InitFiles(DirDocs, {DocActive24, DocDeprecated21, DocArchived21})

\* The documents the validator's runs are given.
ValidateDocs == {DocActive24, DocActive23, DocNoHeader, DocSuperseded, DocCapital}

InitValidate == InitFiles(ValidateDocs, {DocActive24, DocActive23})

\* generate-index.py main (lines 134-149)
IndexMain ==
    /\ IF ~dirExists
       THEN /\ ret' = [NoRet EXCEPT !.call = "main", !.script = "index", !.code = 1,
                          !.stdout = << <<"Error: Specs directory not found: ">> \o SpecsDirStr >>]
            /\ UNCHANGED fs
       ELSE \E specs \in SpecLists(fs) :
            \E index_content \in {generate_index(fs, specs, today)} :
              /\ fs' = [fs EXCEPT ![P_index] = File(index_content)]
              /\ ret' = [NoRet EXCEPT !.call = "main", !.script = "index", !.code = 0,
                            !.stdout = << <<"Generated ">> \o PathStr(P_index) >>]
    /\ UNCHANGED <<dirExists, today, disk, run>>

\* generate-snapshot.py main (lines 124-139)
SnapshotMain ==
    /\ IF ~dirExists
       THEN /\ ret' = [NoRet EXCEPT !.call = "main", !.script = "snapshot", !.code = 1,
                          !.stdout = << <<"Error: Specs directory not found: ">> \o SpecsDirStr >>]
            /\ UNCHANGED fs
       ELSE \E paths \in SpecLists(fs) :
            \E snapshot_content \in {generate_snapshot(fs, paths, today)} :
              /\ fs' = [fs EXCEPT ![P_snapshot] = File(snapshot_content)]
              /\ ret' = [NoRet EXCEPT !.call = "main", !.script = "snapshot", !.code = 0,
                            !.stdout = << <<"Generated ">> \o PathStr(P_snapshot) >>]
    /\ UNCHANGED <<dirExists, today, disk, run>>

\* validate-spec.py main with --all (lines 68-85).  The tick that opens
\* the success line is left out of the printed text.
ValidateMainAll ==
    /\ \E specs \in SpecLists(fs) :
          \E all_errors \in {AllErrorsLoop(<<>>, fs, specs)} :
              ret' = IF all_errors # <<>>
                     THEN [NoRet EXCEPT !.call = "main_all", !.script = "validate",
                              !.errors = all_errors, !.code = 1,
                              !.stdout = ErrorReport(all_errors)]
                     ELSE [NoRet EXCEPT !.call = "main_all", !.script = "validate",
                              !.code = 0,
                              !.stdout = << <<"All ">> \o IntStr(Len(specs))
                                              \o <<" specs are valid">> >>]
    /\ UNCHANGED <<fs, dirExists, today, disk, run>>

\* validate-spec.py main with a path and without --all (lines 87-95)
ValidateMainPath ==
    /\ \E p \in {P_a, P_b, P_c, P_glossary} :
          \E errors \in {validate_spec(fs, p)} :
              ret' = IF errors # <<>>
                     THEN [NoRet EXCEPT !.call = "main_path", !.script = "validate",
                              !.path = p, !.errors = errors, !.code = 1,
                              !.stdout = ErrorReport(errors)]
                     ELSE [NoRet EXCEPT !.call = "main_path", !.script = "validate",
                              !.path = p, !.code = 0,
                              !.stdout = << PathStr(p) \o <<" is valid">> >>]
    /\ UNCHANGED <<fs, dirExists, today, disk, run>>

\* validate-spec.py main with neither (lines 97-99): print_help(), return 1
ValidateMainHelp ==
    /\ ret' = [NoRet EXCEPT !.call = "main_help", !.script = "validate", !.code = 1,
                  !.stdout = << <<"usage: validate-spec.py [-h] [--all] [--specs-dir SPECS_DIR] [path]">> >>]
    /\ UNCHANGED <<fs, dirExists, today, disk, run>>

\* The runs of the two generators on one directory.
Next == IndexMain \/ SnapshotMain

Spec == InitDir /\ [][Next]_vars

\* The runs of the validator on one directory.
NextValidate == ValidateMainAll \/ ValidateMainPath \/ ValidateMainHelp

SpecValidate == InitValidate /\ [][NextValidate]_vars

\* The longest components list of a configuration.
MaxComponents == 2

\* The component tokens of the configurations.
COMPONENT_TOKENS ==
    { <<"contract">>, <<"server">>, <<"webapp">>, <<"config">>, <<"helm">>, <<"testing">>,
      <<"cicd">>, <<"server", ":", "api">>, <<"server", ":", "billing">>,
      <<"webapp", ":", "admin">> }

ComponentLists == UNION {[1..n -> COMPONENT_TOKENS] : n \in 0..MaxComponents}

SKILLS_DIR == <<"plugin", "/", "skills">>

TEMPLATE_DIR == <<"plugin", "/", "templates">>

CONFIG_KEYS ==
    {"project_name", "project_description", "primary_domain", "target_dir", "components",
     "skills_dir", "template_dir"}

\* The config of the docstrings, with both keys for the templates.
FullConfig(components) ==
    [project_name |-> <<"my", "-", "app">>, project_description |-> <<"My application">>,
     primary_domain |-> <<"E-commerce">>, target_dir |-> <<"out">>,
     components |-> components, skills_dir |-> SKILLS_DIR, template_dir |-> TEMPLATE_DIR]

\* The keys a config file holds: all of them, or all but the optional ones
\* and skills_dir (the older form of the file).
KeySets ==
    { CONFIG_KEYS, CONFIG_KEYS \ {"project_description", "primary_domain", "skills_dir"} }

\* The keys of the config files that lack a required key of one of the two
\* scripts or of both.
ShortKeySets ==
    { CONFIG_KEYS \ {"template_dir"},
      CONFIG_KEYS \ {"skills_dir", "template_dir"},
      CONFIG_KEYS \ {"project_name"},
      CONFIG_KEYS \ {"target_dir"},
      CONFIG_KEYS \ {"components"},
      CONFIG_KEYS \ {"project_name", "components"} }

ConfigFile(keys, components) ==
    [found |-> TRUE, config |-> [k \in keys |-> FullConfig(components)[k]]]

\* What --config names: no file, or a file with a JSON object.
ConfigFiles ==
    {[found |-> FALSE, config |-> <<>>]}
      \cup {ConfigFile(K, components) : K \in KeySets, components \in ComponentLists}
      \cup {ConfigFile(K, << <<"contract">>, <<"server">> >>) : K \in ShortKeySets}

\* The template directories of a plugin, by the role they play: project,
\* specs, config, contract, backend, frontend.  Below skills_dir they are
\* project-scaffolding/templates/{project,specs,config} and the templates
\* directories of contract-scaffolding, backend-scaffolding and
\* frontend-scaffolding; below template_dir they are project, specs and
\* components/{config,contract,server,webapp}.
TEMPLATE_GROUPS == {"project", "specs", "config", "contract", "backend", "frontend"}

NoTemplates == [g \in TEMPLATE_GROUPS |-> NoTree]

Tree(files) == [exists |-> TRUE, files |-> files]

PluginTemplates ==
    [project  |-> Tree(<< <<"README", ".md">> >> :>
                         <<"# ", "{{PROJECT_NAME}}", NL, "{{PROJECT_DESCRIPTION}}", NL,
                           "Domain: ", "{{PRIMARY_DOMAIN}}", NL,
                           "Run ", "{{PROJECT_NAME}}", NL>>),
     specs    |-> Tree(<< <<"INDEX", ".md">> >> :> <<"# Specs of ", "{{PROJECT_NAME}}", NL>>),
     config   |-> Tree(<< <<"config", ".yaml">> >> :> <<"name: ", "{{PROJECT_NAME}}", NL>>
                       @@ << <<"schemas">>, <<"schema", ".json">> >> :> <<"{}", NL>>),
     contract |-> Tree(<< <<"openapi", ".yaml">> >> :>
                         <<"title: ", "{{PROJECT_NAME}}", " API", NL>>),
     backend  |-> Tree(<< <<"src">>, <<"index", ".ts">> >> :>
                         <<"// ", "{{PROJECT_NAME}}", NL>>
                       @@ << <<"logo", ".png">> >> :> <<"PNG", "{{PROJECT_NAME}}">>),
     frontend |-> Tree(<< <<"index", ".html">> >> :>
                         <<"<title>", "{{PROJECT_NAME}}", "</title>", NL>>)]

\* The template directories below the directory a config names
TemplatesBelow(templates, dir) ==
    IF dir \in DOMAIN templates THEN templates[dir] ELSE NoTemplates

\* What is on the disk before the first run: the plugin is installed or
\* not, and at target_dir there is nothing, or an empty directory, or a
\* directory in which a file named specs is in the way.
InitialDisks ==
    { [templates |-> (SKILLS_DIR :> PluginTemplates) @@ (TEMPLATE_DIR :> PluginTemplates),
       dirs |-> {}, files |-> <<>>],
      [templates |-> <<>>, dirs |-> {}, files |-> <<>>],
      [templates |-> <<>>, dirs |-> {<<>>}, files |-> <<>>],
      [templates |-> (SKILLS_DIR :> PluginTemplates) @@ (TEMPLATE_DIR :> PluginTemplates),
       dirs |-> {<<>>}, files |-> (<< <<"specs">> >> :> <<"notes", NL>>)] }

InitScaffold ==
    /\ fs = [p \in AllPaths |-> NoFile]
    /\ dirExists = FALSE
    /\ today = Today
    /\ ret = NoRet
    /\ disk \in InitialDisks
    /\ run = NoRun

\* A loop over the required fields that does not look at target_dir.
RECURSIVE FirstMissing_without_target_dir(_, _)
FirstMissing_without_target_dir(config, required) ==
    IF required = <<>> THEN <<>>
    ELSE IF Head(required) # "target_dir" /\ Head(required) \notin DOMAIN config
    THEN <<Head(required)>>
    ELSE FirstMissing_without_target_dir(config, Tail(required))

\* `for field in required: if field not in config: ... return 1': the first
\* field of the list the config lacks, as <<field>>, or <<>>.
RECURSIVE FirstMissing(_, _)
FirstMissing(config, required) ==
    IF required = <<>> THEN <<>>
    ELSE IF Head(required) \notin DOMAIN config THEN <<Head(required)>>
    ELSE FirstMissing(config, Tail(required))

\* config.setdefault(key, value)
SetDefault(config, key, value) ==
    IF key \in DOMAIN config THEN config ELSE DictSet(config, key, value)

\* config.setdefault("project_description", f"A {config['project_name']}
\* project"); config.setdefault("primary_domain", "General")
SetDefaults(config) ==
    SetDefault(SetDefault(config, "project_description",
                          <<"A ">> \o config["project_name"] \o <<" project">>),
               "primary_domain", <<"General">>)

\* `if "skills_dir" not in config and "template_dir" in config:
\*      config["skills_dir"] = str(Path(config["template_dir"]).parent / "skills")'
LegacySkillsDir(config) ==
    IF "skills_dir" \notin DOMAIN config /\ "template_dir" \in DOMAIN config
    THEN DictSet(config, "skills_dir",
                 SubSeq(config["template_dir"], 1, Len(config["template_dir"]) - 1)
                   \o <<"skills">>)
    ELSE config

\* A run that returns 1 before scaffold_project is called.
Refused(script, given, stderr) ==
    [script |-> script, given |-> given, config |-> given.config, code |-> 1,
     stderr |-> stderr, result |-> NoResult, steps |-> <<>>]

\* The run of scaffold_project(config) inside `try: ... except Exception as
\* e: print(f"Error: {e}", file=sys.stderr); return 1' on the tree the steps
\* left.
Scaffolded(script, given, config, steps, tree) ==
    [script |-> script, given |-> given, config |-> config,
     code |-> IF tree.error = <<>> THEN 0 ELSE 1,
     stderr |-> IF tree.error = <<>> THEN <<>> ELSE <<"Error: ">> \o tree.error,
     result |-> IF tree.error = <<>> THEN ScaffoldResult(steps) ELSE NoResult,
     steps |-> steps]

\* The tool is run on a target directory, and may be run on it again with
\* the same config file.
Invocations(script) ==
    IF run = NoRun THEN ConfigFiles
    ELSE IF run.script = script THEN {run.given} ELSE {}

\* One run of scaffolding.py --config <file> (the lines it prints to stdout
\* and --json-output, which prints the returned dict, are left out).
ScaffoldingMain ==
    /\ \E given \in Invocations("scaffolding") :
         /\ IF ~given.found
            THEN /\ run' = Refused("scaffolding", given,
                                   <<"Error: Config file not found: ", "config.json">>)
                 /\ disk' = disk
            ELSE \E config \in {LegacySkillsDir(given.config)} :
                 \E missing \in {FirstMissing(config, <<"project_name", "target_dir",
                                                        "components", "skills_dir">>)} :
                   IF missing # <<>>
                   THEN /\ run' = Refused("scaffolding", given,
                                          <<"Error: Missing required config field: ",
                                            missing[1]>>)
                        /\ disk' = disk
                   ELSE \E cfg \in {SetDefaults(config)} :
                        \E templates \in {TemplatesBelow(disk.templates, cfg["skills_dir"])} :
                        \E backend_order \in Orders(DOMAIN templates["backend"].files) :
                        \E frontend_order \in Orders(DOMAIN templates["frontend"].files) :
                        \E steps \in {scaffolding_steps(cfg, templates, backend_order,
                                                        frontend_order)} :
                        \E tree \in {ApplySteps([dirs |-> disk.dirs, files |-> disk.files,
                                                 error |-> <<>>], steps)} :
                          /\ run' = Scaffolded("scaffolding", given, cfg, steps, tree)
                          /\ disk' = [disk EXCEPT !.dirs = tree.dirs, !.files = tree.files]
    /\ UNCHANGED <<fs, dirExists, today, ret>>

\* One run of scaffold.py --config <file>
ScaffoldMain ==
    /\ \E given \in Invocations("scaffold") :
         /\ IF ~given.found
            THEN /\ run' = Refused("scaffold", given,
                                   <<"Error: Config file not found: ", "config.json">>)
                 /\ disk' = disk
            ELSE \E config \in {given.config} :
                 \E missing \in {FirstMissing(config, <<"project_name", "target_dir",
                                                        "components", "template_dir">>)} :
                   IF missing # <<>>
                   THEN /\ run' = Refused("scaffold", given,
                                          <<"Error: Missing required config field: ",
                                            missing[1]>>)
                        /\ disk' = disk
                   ELSE \E cfg \in {SetDefaults(config)} :
                        \E templates \in {TemplatesBelow(disk.templates, cfg["template_dir"])} :
                        \E backend_order \in Orders(DOMAIN templates["backend"].files) :
                        \E frontend_order \in Orders(DOMAIN templates["frontend"].files) :
                        \E steps \in {scaffold_steps(cfg, templates, backend_order,
                                                     frontend_order)} :
                        \E tree \in {ApplySteps([dirs |-> disk.dirs, files |-> disk.files,
                                                 error |-> <<>>], steps)} :
                          /\ run' = Scaffolded("scaffold", given, cfg, steps, tree)
                          /\ disk' = [disk EXCEPT !.dirs = tree.dirs, !.files = tree.files]
    /\ UNCHANGED <<fs, dirExists, today, ret>>

\* The runs of the two scaffolders on one target directory.
NextScaffold == ScaffoldingMain \/ ScaffoldMain

SpecScaffold == InitScaffold /\ [][NextScaffold]_vars

----------------------------------------------------------------------------
(* What a header block says, read off its lines without running the loop.   *)

\* The text of the file at path p.
TextOf(p) == fs[p].text

\* The lines of the header block of a text that has one.
HeaderLines(text) == Split(FrontmatterGroup(text), NL)

HasColon(line) == \E i \in 1..Len(line) : line[i] = ":"

FirstColon(line) == CHOOSE i \in 1..Len(line) : line[i] = ":" /\ \A j \in 1..(i - 1) : line[j] # ":"

KeyOf(line) == Strip(SubSeq(line, 1, FirstColon(line) - 1))

ValueOf(line) == Strip(SubSeq(line, FirstColon(line) + 1, Len(line)))

\* The positions of the lines that name the key.
KeyLines(lines, key) == {n \in 1..Len(lines) : HasColon(lines[n]) /\ KeyOf(lines[n]) = key}

HasKey(lines, key) == KeyLines(lines, key) # {}

\* The value on the last line that names the key.
LastValue(lines, key) ==
    LET n == CHOOSE x \in KeyLines(lines, key) : \A y \in KeyLines(lines, key) : y <= x
    IN  ValueOf(lines[n])

\* The key is named and its last value is not empty.
Filled(lines, key) == HasKey(lines, key) /\ LastValue(lines, key) # <<>>

\* What the header of a text says for a key: <<>> when the text has no header
\* block or the block does not name the key, else <<value>>.
HeaderField(text, key) ==
    IF ~FrontmatterMatches(text) THEN <<>>
    ELSE Let(HeaderLines(text),
             LAMBDA lines : IF HasKey(lines, key) THEN <<LastValue(lines, key)>> ELSE <<>>)

RequiredKeys == {<<"title">>, <<"status">>, <<"domain">>, <<"issue">>, <<"created">>, <<"updated">>}

ValidStatusSet == {<<"active">>, <<"deprecated">>, <<"superseded">>, <<"archived">>}

\* TODO, PROJ-XXX, [PROJ-XXX], {{ISSUE}}
KnownPlaceholders ==
    {<<"TODO">>, <<"PROJ", "-", "XXX">>, <<"[PROJ", "-", "XXX]">>, <<"{{ISSUE}}">>}

\* How many times e occurs in the list.
Count(list, e) == Cardinality({n \in 1..Len(list) : list[n] = e})

\* validate_spec has returned for an existing file.
ValidatedFile == ret.call = "validate_spec" /\ fs[ret.path].exists

\* ... whose text has a header block
ValidatedHeader == ValidatedFile /\ FrontmatterMatches(TextOf(ret.path))

----------------------------------------------------------------------------
(* C1: errors accumulate.  For a file whose header lacks `issue', has       *)
(* `status: bogus' and has title, domain, created and updated filled,       *)
(* validate_spec returns exactly two errors: the missing `issue' field and  *)
(* the invalid status.                                                      *)

C1_Header(lines) ==
    /\ ~HasKey(lines, <<"issue">>)
    /\ HasKey(lines, <<"status">>) /\ LastValue(lines, <<"status">>) = <<"bogus">>
    /\ \A key \in {<<"title">>, <<"domain">>, <<"created">>, <<"updated">>} : Filled(lines, key)

C1_Case == ValidatedHeader /\ \A lines \in {HeaderLines(TextOf(ret.path))} : C1_Header(lines)

C1_TwoErrors ==
    C1_Case =>
        /\ Len(ret.errors) = 2
        /\ Count(ret.errors, MissingFieldError(<<"issue">>, ret.path)) = 1
        /\ Count(ret.errors, InvalidStatusError(<<"bogus">>, ret.path)) = 1

C1_Witness == C1_Case /\ Len(ret.errors) = 2

----------------------------------------------------------------------------
(* C2: for a file whose header has all six required fields filled and a     *)
(* valid status, validate_spec reports the placeholder error whenever       *)
(* `issue' is TODO, PROJ-XXX, [PROJ-XXX] or {{ISSUE}}: the file is not      *)
(* valid.                                                                   *)

C2_Header(lines) ==
    /\ \A key \in RequiredKeys : Filled(lines, key)
    /\ LastValue(lines, <<"status">>) \in ValidStatusSet
    /\ LastValue(lines, <<"issue">>) \in KnownPlaceholders

C2_Case == ValidatedHeader /\ \A lines \in {HeaderLines(TextOf(ret.path))} : C2_Header(lines)

C2_PlaceholderIssue ==
    C2_Case =>
        /\ Count(ret.errors, PlaceholderIssueError(ret.path)) = 1
        /\ ret.errors # <<>>

C2_Witness ==
    /\ C2_Case
    /\ HeaderField(TextOf(ret.path), <<"issue">>) = << <<"TODO">> >>
    /\ ret.errors = <<PlaceholderIssueError(ret.path)>>

----------------------------------------------------------------------------
(* C4: validate_spec returns no error if and only if the file has a header  *)
(* block in which each of the six required fields is filled, status is one  *)
(* of active, deprecated, superseded, archived and issue is no placeholder; *)
(* and for a file with a header block it returns one `missing required      *)
(* field' error for each required field that is absent or empty (and none   *)
(* for a filled one).                                                       *)

C4_Header(lines) ==
    /\ \A key \in RequiredKeys : Filled(lines, key)
    /\ LastValue(lines, <<"status">>) \in ValidStatusSet
    /\ LastValue(lines, <<"issue">>) \notin KnownPlaceholders

C4_Valid(text) ==
    /\ FrontmatterMatches(text)
    /\ \A lines \in {HeaderLines(text)} : C4_Header(lines)

C4_ValidIffNoErrors ==
    /\ ret.call = "validate_spec" =>
          (ret.errors = <<>> <=> (fs[ret.path].exists /\ C4_Valid(TextOf(ret.path))))
    /\ ValidatedHeader =>
          \A lines \in {HeaderLines(TextOf(ret.path))} :
              \A key \in RequiredKeys :
                  Count(ret.errors, MissingFieldError(key, ret.path)) =
                      IF Filled(lines, key) THEN 0 ELSE 1

\* A valid file was accepted.
C4_Witness ==
    /\ ValidatedHeader
    /\ C4_Valid(TextOf(ret.path))
    /\ ret.errors = <<>>

----------------------------------------------------------------------------
(* C5: for every document that does not begin with a delimited header       *)
(* block (a first line `---', at least one line, then a line that starts    *)
(* with `---'), validate_spec returns the `Missing frontmatter' error; this *)
(* includes the document whose two delimiter lines enclose no line.         *)

\* The first line is the delimiter (blanks may follow it) and a line after
\* the second starts with the delimiter.
C5_HeaderBlock(ls) ==
    /\ Len(ls) >= 3
    /\ HasAt(ls[1], 1, DELIM)
    /\ \A i \in 4..Len(ls[1]) : IsSpace(ls[1][i])
    /\ \E m \in 3..Len(ls) : HasAt(ls[m], 1, DELIM)

BeginsWithHeaderBlock(text) == \A ls \in {Split(text, NL)} : C5_HeaderBlock(ls)

C5_NoHeaderFails ==
    (ValidatedFile /\ ~BeginsWithHeaderBlock(TextOf(ret.path))) =>
        ret.errors = <<MissingFrontmatterError(ret.path)>>

\* `---', line break, `---': nothing between the delimiter lines.
C5_Witness ==
    /\ ValidatedFile
    /\ TextOf(ret.path) = DELIM \o <<NL>> \o DELIM
    /\ ret.errors = <<MissingFrontmatterError(ret.path)>>

----------------------------------------------------------------------------
(* C6 as stated: for any document without the header delimiter,             *)
(* parse_frontmatter of each of the three scripts returns an empty mapping. *)

\* `---' occurs nowhere in the text.
NoDelimiter(text) == \A i \in 1..Len(text) : ~HasAt(text, i, DELIM)

C6_Case == ret.call = "parse_frontmatter" /\ NoDelimiter(TextOf(ret.path))

----------------------------------------------------------------------------
(* C7: parse_frontmatter (generate-index.py) maps every key of the header   *)
(* block to the trimmed value of the last line that names it; a line is     *)
(* split on its first colon only, so a value may hold colons; a line        *)
(* without a colon contributes no key.                                      *)

C7_Case ==
    /\ ret.call = "parse_frontmatter"
    /\ ret.script = "index"
    /\ FrontmatterMatches(TextOf(ret.path))

C7_LastValueWins ==
    C7_Case =>
        \A lines \in {HeaderLines(TextOf(ret.path))} :
            /\ ret.value.type = "dict"
            /\ DOMAIN ret.value.items =
                   {KeyOf(lines[n]) : n \in {x \in 1..Len(lines) : HasColon(lines[x])}}
            /\ \A key \in DOMAIN ret.value.items :
                   ret.value.items[key] = LastValue(lines, key)

\* The block names k twice, first with the value v and last with a:b, and
\* holds a line without a colon.
C7_Witness ==
    /\ C7_Case
    /\ HeaderLines(TextOf(ret.path)) =
           << <<"k", ":", " ", "v">>, <<"word">>, <<" ", "k", " ", ":", "a", ":", "b">> >>
    /\ ret.value.items = [key \in {<<"k">>} |-> <<"a", ":", "b">>]

----------------------------------------------------------------------------
(* C3: the validator's main exits with 0 only if validate_spec has no error *)
(* for any file it checked (with --all the files it enumerates, else the    *)
(* file named); with --all every enumerated file is validated, whatever     *)
(* came before it, and the report lists every error of every file, and      *)
(* nothing else.                                                            *)

\* The files a finished run of the validator checked.
CheckedFiles ==
    CASE ret.call = "main_all"  -> SpecFiles(fs)
      [] ret.call = "main_path" -> {ret.path}
      [] OTHER                  -> {}

\* The line of the report for one error.
ReportLine(error) == <<"  - ">> \o error

\* The lines of the report that show an error.
ReportedErrors == {n \in 1..Len(ret.stdout) : HasAt(ret.stdout[n], 1, <<"  - ">>)}

C3_ExitStatusAndAggregate ==
    /\ (ret.script = "validate" /\ ret.call # "validate_spec" /\ ret.code = 0) =>
          /\ ret.call \in {"main_all", "main_path"}
          /\ \A p \in CheckedFiles : validate_spec(fs, p) = <<>>
    /\ ret.call = "main_all" =>
          /\ \A p \in SpecFiles(fs) :
                \A errors \in {validate_spec(fs, p)} :
                    \A n \in 1..Len(errors) : Count(ret.stdout, ReportLine(errors[n])) = 1
          /\ Cardinality(ReportedErrors) =
                 Cardinality({pn \in SpecFiles(fs) \X (1..6) :
                                 pn[2] <= Len(validate_spec(fs, pn[1]))})

\* Two files with errors, and the report of one run shows the errors of both.
C3_Witness ==
    /\ ret.call = "main_all"
    /\ ret.code = 1
    /\ fs[P_a].exists /\ TextOf(P_a) = DocNoHeader
    /\ fs[P_b].exists /\ TextOf(P_b) = DocActive23
    /\ Count(ret.stdout, ReportLine(MissingFrontmatterError(P_a))) = 1
    /\ Count(ret.stdout, ReportLine(PlaceholderIssueError(P_b))) = 1

----------------------------------------------------------------------------
(* C8: SNAPSHOT.md renders a specification file if and only if the header   *)
(* of the file has `status' exactly `active' (a file with no header, no     *)
(* status, `Active' or another status is left out), whereas INDEX.md lists  *)
(* a file without a status in the Active table and counts it as active.     *)

\* The `**Spec:**' line the snapshot renders for the file.
SpecLine(p) == <<"**Spec:** [">> \o RelStr(p) \o <<"](">> \o RelStr(p) \o <<")">>

\* The line is a table row that links to the file.
IsRowOf(line, p) ==
    \E i \in 1..Len(line) : HasAt(line, i, <<" | [">> \o RelStr(p) \o <<"](">> \o RelStr(p) \o <<") | ">>)

\* The numbers of the lines below the heading `from' and above the heading
\* `to' (the end of the text when `to' is no line of it).
Section(lines, from, to) ==
    {n \in 1..Len(lines) :
        /\ \E a \in 1..(n - 1) : lines[a] = from
        /\ \A b \in 1..n : lines[b] # to}

ActiveSection(lines) == Section(lines, <<"## Active Changes">>, <<"## Deprecated">>)

DeprecatedSection(lines) == Section(lines, <<"## Deprecated">>, <<"## Archived">>)

ArchivedSection(lines) == Section(lines, <<"## Archived">>, <<"## End">>)

\* The files the index counts as active: status active, or no status.
CountedActive ==
    {p \in SpecFiles(fs) : HeaderField(TextOf(p), <<"status">>) \in {<<>>, << <<"active">> >>}}

C8_SnapshotExactlyActive ==
    /\ fs[P_snapshot].exists =>
          \A lines \in {Split(TextOf(P_snapshot), NL)} :
              \A p \in SpecFiles(fs) :
                  Count(lines, SpecLine(p)) =
                      IF HeaderField(TextOf(p), <<"status">>) = << <<"active">> >> THEN 1 ELSE 0
    /\ fs[P_index].exists =>
          \A lines \in {Split(TextOf(P_index), NL)} :
              /\ \A p \in SpecFiles(fs) :
                    HeaderField(TextOf(p), <<"status">>) = <<>> =>
                        \E n \in ActiveSection(lines) : IsRowOf(lines[n], p)
              /\ \E n \in 1..Len(lines) :
                    HasAt(lines[n], 1, <<"Total: ">>)
                    /\ \E i \in 1..Len(lines[n]) :
                          HasAt(lines[n], i, <<" specs (Active: ">>
                                                \o IntStr(Cardinality(CountedActive))
                                                \o <<", Deprecated: ">>)

\* Both documents were generated for a directory that holds a file with the
\* status Active, a file without a header and a file with the status active.
C8_Witness ==
    /\ fs[P_snapshot].exists /\ fs[P_index].exists
    /\ fs[P_a].exists /\ TextOf(P_a) = DocCapital
    /\ fs[P_b].exists /\ TextOf(P_b) = DocNoHeader
    /\ fs[P_c].exists /\ TextOf(P_c) = DocActive24
    /\ \A lines \in {Split(TextOf(P_snapshot), NL)} :
          /\ Count(lines, SpecLine(P_a)) = 0
          /\ Count(lines, SpecLine(P_b)) = 0
          /\ Count(lines, SpecLine(P_c)) = 1
    /\ \A lines \in {Split(TextOf(P_index), NL)} :
          \E n \in ActiveSection(lines) : IsRowOf(lines[n], P_b)

----------------------------------------------------------------------------
(* C9: for a directory without specification files INDEX.md reports         *)
(* 0 specs, 0 active, 0 deprecated and 0 archived, lists no file, and holds *)
(* exactly three placeholders: `No active changes yet' in the Active        *)
(* section, `None' in the Deprecated and `None' in the Archived section.    *)

C9_Case == fs[P_index].exists /\ SpecFiles(fs) = {}

Placeholders(lines) ==
    {n \in 1..Len(lines) :
        lines[n] \in {<<"| *No active changes yet* | | | | | |">>, <<"*None*">>}}

C9_EmptyIndex ==
    C9_Case =>
        \A lines \in {Split(TextOf(P_index), NL)} :
            /\ Count(lines, <<"Total: ", "0", " specs (Active: ", "0", ", Deprecated: ", "0",
                              ", Archived: ", "0", ")">>) = 1
            /\ Cardinality(Placeholders(lines)) = 3
            /\ \E n \in ActiveSection(lines) :
                  lines[n] = <<"| *No active changes yet* | | | | | |">>
            /\ \E n \in DeprecatedSection(lines) : lines[n] = <<"*None*">>
            /\ \E n \in ArchivedSection(lines) : lines[n] = <<"*None*">>
            /\ \A n \in 1..Len(lines) : \A p \in AllPaths : ~IsRowOf(lines[n], p)

\* The index of a directory that holds a glossary and a file that is no .md
\* file, and no specification.
C9_Witness ==
    /\ C9_Case
    /\ fs[P_glossary].exists /\ fs[P_notes].exists
    /\ Cardinality(Placeholders(Split(TextOf(P_index), NL))) = 3

----------------------------------------------------------------------------
(* C10: in each table of INDEX.md (Active, Deprecated, Archived) the row of *)
(* a file whose `created' is smaller, as a string, stands above the row of  *)
(* a file of the same table whose `created' is larger.                      *)

\* The status the index files the file under, and its `created'.
IndexStatusOf(p) ==
    Let(HeaderField(TextOf(p), <<"status">>),
        LAMBDA s : IF s = <<>> THEN <<"active">> ELSE s[1])

CreatedOf(p) ==
    Let(HeaderField(TextOf(p), <<"created">>),
        LAMBDA c : IF c = <<>> THEN <<>> ELSE c[1])

\* Two files of one table, the first created before the second.
C10_Pair(p, q) ==
    /\ IndexStatusOf(p) \in {<<"active">>, <<"deprecated">>, <<"archived">>}
    /\ IndexStatusOf(p) = IndexStatusOf(q)
    /\ TextLess(CreatedOf(p), CreatedOf(q))

\* The row of p stands above the row of q, no heading between them.
C10_Above(lines, p, q) ==
    \E n, m \in 1..Len(lines) :
        /\ n < m
        /\ IsRowOf(lines[n], p)
        /\ IsRowOf(lines[m], q)
        /\ \A k \in n..m : ~HasAt(lines[k], 1, <<"#">>) /\ lines[k] \notin
               {<<"## Active Changes">>, <<"## Deprecated">>, <<"## Archived">>}

C10_AscendingCreated ==
    fs[P_index].exists =>
        \A lines \in {Split(TextOf(P_index), NL)} :
            \A p, q \in SpecFiles(fs) : C10_Pair(p, q) => C10_Above(lines, p, q)

\* a.md was created in 2024 and sub/b.md in 2023, both active: the row of
\* sub/b.md stands above the row of a.md.
C10_Witness ==
    /\ fs[P_index].exists
    /\ fs[P_a].exists /\ TextOf(P_a) = DocActive24
    /\ fs[P_b].exists /\ TextOf(P_b) = DocActive23
    /\ C10_Pair(P_b, P_a)
    /\ C10_Above(Split(TextOf(P_index), NL), P_b, P_a)

----------------------------------------------------------------------------
(* C15: INDEX.md is determined by the files of the directory and the date:  *)
(* whatever order the enumeration yields the files in, generate_index       *)
(* returns the text that was written, also when files of one table have     *)
(* the same `created'.                                                      *)

C15_OrderIndependent ==
    fs[P_index].exists =>
        \A specs \in SpecLists(fs) : generate_index(fs, specs, today) = TextOf(P_index)

----------------------------------------------------------------------------
(* C16: for an active file whose `## Overview' section is empty (after the  *)
(* heading come only blank lines up to the next `##' heading or the end),   *)
(* SNAPSHOT.md renders the file's link line, its issue line if it has an    *)
(* issue, an empty line and the rule `---': no text stands in between.      *)

\* The line is empty or holds blanks only.
IsBlank(line) == \A i \in 1..Len(line) : IsSpace(line[i])

\* The first `## Overview' line is followed by blank lines only, up to a line
\* that starts with `##' or to the end.
EmptyOverviewIn(ls) ==
    \E n \in 1..Len(ls) :
        /\ HasAt(ls[n], 1, OVERVIEW) /\ IsBlank(SubSeq(ls[n], 5, Len(ls[n])))
        /\ \A m \in 1..(n - 1) : ~HasAt(ls[m], 1, OVERVIEW)
        /\ \E e \in (n + 1)..(Len(ls) + 1) :
              /\ \A m \in (n + 1)..(e - 1) : IsBlank(ls[m])
              /\ e <= Len(ls) => HasAt(ls[e], 1, <<"#", "#">>)

EmptyOverview(text) == \A ls \in {Split(text, NL)} : EmptyOverviewIn(ls)

\* Below the link line of p: the issue line if any, an empty line, the rule.
NoBodyBelow(lines, p) ==
    \E n \in 1..Len(lines) :
        /\ lines[n] = SpecLine(p)
        /\ \E m \in {n, n + 1} :
              /\ m = n + 1 => HasAt(lines[m], 1, <<"**Issue:** [">>)
              /\ m + 2 <= Len(lines)
              /\ lines[m + 1] = <<>>
              /\ lines[m + 2] = <<"---">>

C16_EmptyOverviewNoBody ==
    fs[P_snapshot].exists =>
        \A lines \in {Split(TextOf(P_snapshot), NL)} :
            \A p \in SpecFiles(fs) :
                (HeaderField(TextOf(p), <<"status">>) = << <<"active">> >>
                 /\ EmptyOverview(TextOf(p)))
                    => NoBodyBelow(lines, p)

----------------------------------------------------------------------------
(* C17: a run of the index builder or the snapshot builder on a directory   *)
(* that does not exist, and a run of the validator on a file or (with       *)
(* --all) a directory that does not exist, exits with a status other than   *)
(* 0 and writes no file.                                                    *)

\* The last run was given an input that does not exist.
MissingInput ==
    \/ ret.call \in {"main", "main_all"} /\ ~dirExists
    \/ ret.call = "main_path" /\ ~fs[ret.path].exists

C17_MissingInputFails ==
    MissingInput =>
        /\ ret.code # 0
        /\ ~fs[P_index].exists /\ ~fs[P_snapshot].exists

----------------------------------------------------------------------------
(* C19: in INDEX.md the total is the number of specification files, the     *)
(* Active, Deprecated and Archived counts are the numbers of rows of their  *)
(* tables, a file whose status is none of the three has no row, and the     *)
(* total is the sum of the three counts plus the number of such files.      *)

\* The rows of a section: its lines that link to a file.
RowsIn(lines, section) == {n \in section : \E p \in AllPaths : IsRowOf(lines[n], p)}

\* The files whose status has no table.
Untabled ==
    {p \in SpecFiles(fs) :
        IndexStatusOf(p) \notin {<<"active">>, <<"deprecated">>, <<"archived">>}}

TotalLineOf(t, a, d, r) ==
    <<"Total: ">> \o IntStr(t) \o <<" specs (Active: ">> \o IntStr(a)
        \o <<", Deprecated: ">> \o IntStr(d) \o <<", Archived: ">> \o IntStr(r) \o <<")">>

C19_Counts(lines) ==
    \E a \in {Cardinality(RowsIn(lines, ActiveSection(lines)))},
       d \in {Cardinality(RowsIn(lines, DeprecatedSection(lines)))},
       r \in {Cardinality(RowsIn(lines, ArchivedSection(lines)))} :
        /\ Count(lines, TotalLineOf(Cardinality(SpecFiles(fs)), a, d, r)) = 1
        /\ \A p \in Untabled : \A n \in 1..Len(lines) : ~IsRowOf(lines[n], p)
        /\ Cardinality(SpecFiles(fs)) = a + d + r + Cardinality(Untabled)

C19_TotalsAndRows ==
    fs[P_index].exists => \A lines \in {Split(TextOf(P_index), NL)} : C19_Counts(lines)

\* The index of a directory that holds a superseded and an active file:
\* 2 specs, 1 active.
C19_Witness ==
    /\ fs[P_index].exists
    /\ fs[P_a].exists /\ TextOf(P_a) = DocSuperseded
    /\ fs[P_b].exists /\ TextOf(P_b) = DocActive24
    /\ ~fs[P_c].exists
    /\ Count(Split(TextOf(P_index), NL), TotalLineOf(2, 1, 0, 0)) = 1

----------------------------------------------------------------------------
(* The scaffolders.                                                         *)

\* The last run of a scaffolder ran scaffold_project to its end.
Completed == run.script # "none" /\ run.code = 0

\* The parsed component tokens of the last run's config.
Selected == [n \in 1..Len(run.config["components"]) |->
               parse_component(run.config["components"][n])]

\* The server subdirectories the script of the last run creates.
ServerSubdirsOf(script) ==
    IF script = "scaffolding" THEN SERVER_SUBDIRS ELSE SERVER_DIRS_LEGACY

\* components/<dir_name> and every server subdirectory below it exist.
HasServerTree(dir_name) ==
    /\ ComponentDir(dir_name) \in disk.dirs
    /\ \A d \in Range(Below(ComponentDir(dir_name), ServerSubdirsOf(run.script))) :
         d \in disk.dirs

(* C11: after a completed run, every component token server:<name> of the    *)
(* config has its own tree components/server-<name> with the full set of    *)
(* server subdirectories (so server:api and server:billing give two trees). *)
C11_NamedServerTrees ==
    Completed =>
      \A pc \in Range(Selected) :
        pc.component_type = <<"server">> /\ pc.has_name => HasServerTree(pc.dir_name)

\* The three tokens a template may hold, and the config key of each.
TemplateTokens == {"{{PROJECT_NAME}}", "{{PROJECT_DESCRIPTION}}", "{{PRIMARY_DOMAIN}}"}

ConfiguredValue(token) ==
    CASE token = "{{PROJECT_NAME}}" -> run.config["project_name"]
      [] token = "{{PROJECT_DESCRIPTION}}" -> run.config["project_description"]
      [] token = "{{PRIMARY_DOMAIN}}" -> run.config["primary_domain"]

\* The content with the configured value in the place of every token.
Filled_in(content) ==
    Flatten([n \in 1..Len(content) |->
               IF content[n] \in TemplateTokens THEN ConfiguredValue(content[n])
               ELSE <<content[n]>>])

\* The template directories the last run read.
TemplatesOfRun ==
    TemplatesBelow(disk.templates,
                   IF run.script = "scaffolding" THEN run.config["skills_dir"]
                   ELSE run.config["template_dir"])

\* The places below target_dir a template file of a group is copied to.
DestsOf(group, src) ==
    LET manifest == CASE group = "project" -> PROJECT_FILES
                      [] group = "specs" -> SPEC_FILES
                      [] group = "config" -> CONFIG_FILES
                      [] group = "contract" -> CONTRACT_FILES
                      [] OTHER -> <<>>
        type     == IF group = "backend" THEN <<"server">> ELSE <<"webapp">>
    IN  IF group \in {"backend", "frontend"}
        THEN {ComponentDir(pc.dir_name) \o src : pc \in {x \in Range(Selected) :
                                                            x.component_type = type}}
        ELSE {x[2] : x \in {y \in Range(manifest) : y[1] = src}}

\* The copies of template files a completed run left: <<source content,
\* source path, destination>>.
Copies ==
    UNION { UNION { {<<TemplatesOfRun[g].files[src], src, dest>> :
                       dest \in DestsOf(g, src) \cap DOMAIN disk.files} :
                    src \in DOMAIN TemplatesOfRun[g].files } :
            g \in TEMPLATE_GROUPS }

(* C12: after a completed run, a file copied from a template whose suffix   *)
(* is one of the substituted ones holds the template's text with every      *)
(* occurrence of the three tokens replaced by the configured value, and no  *)
(* token remains in it; a file of any other suffix holds the template's     *)
(* content unchanged.                                                       *)
C12_Substitution ==
    Completed =>
      \A copy \in Copies :
        IF PathSuffix(copy[2]) \in SUBSTITUTED_SUFFIXES
        THEN /\ disk.files[copy[3]] = Filled_in(copy[1])
             /\ \A n \in 1..Len(disk.files[copy[3]]) :
                  disk.files[copy[3]][n] \notin TemplateTokens
        ELSE disk.files[copy[3]] = copy[1]

\* A run with a named server left README.md with both occurrences of the
\* project name and the default description filled in, and the server's
\* logo.png with its token untouched.
C12_Witness ==
    /\ Completed
    /\ "project_description" \notin DOMAIN run.given.config
    /\ << <<"README", ".md">> >> \in DOMAIN disk.files
    /\ disk.files[<< <<"README", ".md">> >>] =
         <<"# ", "my", "-", "app", NL, "A ", "my", "-", "app", " project", NL,
           "Domain: ", "General", NL, "Run ", "my", "-", "app", NL>>
    /\ ComponentDir(<<"server", "-", "api">>) \o << <<"logo", ".png">> >> \in DOMAIN disk.files
    /\ disk.files[ComponentDir(<<"server", "-", "api">>) \o << <<"logo", ".png">> >>] =
         <<"PNG", "{{PROJECT_NAME}}">>
    /\ Cardinality(Copies) >= 6

\* The config file lacks a key the script requires; scaffolding.py takes the
\* templates root from skills_dir or, in its absence, from template_dir,
\* scaffold.py from template_dir.
LacksRequired(script, config) ==
    \/ \E k \in {"project_name", "target_dir", "components"} : k \notin DOMAIN config
    \/ script = "scaffolding" /\ DOMAIN config \cap {"skills_dir", "template_dir"} = {}
    \/ script = "scaffold" /\ "template_dir" \notin DOMAIN config

(* C13: a run whose config file lacks a required key (project_name,         *)
(* target_dir, components or the key of the templates root) reports the     *)
(* missing field on stderr and returns 1, and the run creates no directory  *)
(* and writes no file.                                                      *)
C13_MissingKeyNoMutation ==
    [][ run'.given.found /\ LacksRequired(run'.script, run'.given.config)
          => /\ run'.code = 1
             /\ run'.stderr # <<>>
             /\ run'.stderr[1] = "Error: Missing required config field: "
             /\ run'.steps = <<>>
             /\ disk' = disk ]_vars

\* A run of scaffolding.py on a config without components and project_name
\* named the first of the two and left nothing at target_dir.
C13_Witness ==
    /\ run.script = "scaffolding"
    /\ run.given.found
    /\ DOMAIN run.given.config = CONFIG_KEYS \ {"project_name", "components"}
    /\ run.code = 1
    /\ run.stderr = <<"Error: Missing required config field: ", "project_name">>
    /\ disk.dirs = {} /\ DOMAIN disk.files = {}

\* The directories of the selected components that are built: the contract
\* and every server and webapp instance.
BuildableDirs ==
    {pc.dir_name : pc \in {x \in Range(Selected) :
                             \/ x.component_type = <<"contract">> /\ ~x.has_name
                             \/ x.component_type \in {<<"server">>, <<"webapp">>}}}

\* The text names components/<dir_name>.
NamesDirectory(text, dir_name) ==
    \E i \in 1..Len(text) : HasAt(text, i, <<"components/">> \o dir_name)

(* C14: after a completed run with cicd among the components, the file      *)
(* .github/workflows/ci.yaml names the directory components/<dir_name> of    *)
(* the contract and of every selected server and webapp.                    *)
C14_CiNamesComponents ==
    Completed /\ <<"cicd">> \in Range(run.config["components"])
      => /\ P_ci \in DOMAIN disk.files
         /\ \A dir_name \in BuildableDirs : NamesDirectory(disk.files[P_ci], dir_name)

\* The lists that hold the tokens of the list in another order while tokens
\* of the same type keep their relative order.
Reorderings(list) ==
    LET n     == Len(list)
        type  == [i \in 1..n |-> parse_component(list[i]).component_type]
        perms == {f \in [1..n -> 1..n] :
                    /\ \A i, j \in 1..n : i # j => f[i] # f[j]
                    /\ \A i, j \in 1..n : i < j /\ type[f[i]] = type[f[j]] => f[i] < f[j]}
    IN  {[i \in 1..n |-> list[f[i]]] : f \in perms}

\* The steps of the script of the last run for its config with another
\* components list.
StepsFor(components, backend_order, frontend_order) ==
    IF run.script = "scaffolding"
    THEN scaffolding_steps(DictSet(run.config, "components", components), TemplatesOfRun,
                           backend_order, frontend_order)
    ELSE scaffold_steps(DictSet(run.config, "components", components), TemplatesOfRun,
                        backend_order, frontend_order)

\* The steps leave the directories and files of the disk and the counts the
\* last run returned.
SameOutcome(steps) ==
    \A tree \in {ApplySteps([dirs |-> {}, files |-> <<>>, error |-> <<>>], steps)} :
      /\ tree.error = <<>>
      /\ tree.dirs = disk.dirs
      /\ tree.files = disk.files
      /\ ScaffoldResult(steps).created_dirs = run.result.created_dirs
      /\ ScaffoldResult(steps).created_files = run.result.created_files

(* C18: after a completed run, a run of scaffold_project on an empty target *)
(* with the components in any other order that keeps the relative order of *)
(* the tokens of one type gives the same directories, the same files with   *)
(* the same contents (overview and CI workflow included) and the same       *)
(* counts, whatever the order the template files are enumerated in.         *)
C18_OrderIndependent ==
    Completed =>
      \A components \in Reorderings(run.config["components"]) :
      \A backend_order \in Orders(DOMAIN TemplatesOfRun["backend"].files) :
      \A frontend_order \in Orders(DOMAIN TemplatesOfRun["frontend"].files) :
        SameOutcome(StepsFor(components, backend_order, frontend_order))

\* A completed run of scaffolding.py on [server:api, contract], which has a
\* second order, with the overview naming the contract above the server.
C18_Witness ==
    /\ Completed
    /\ run.script = "scaffolding"
    /\ run.config["components"] = << <<"server", ":", "api">>, <<"contract">> >>
    /\ Cardinality(Reorderings(run.config["components"])) = 2
    /\ disk.files[P_overview] =
         ArchHead(run.config)
           \o <<"- **", "Contract", "** ('components/", "contract", "/'): ",
                "OpenAPI specifications and type generation", NL,
                "- **", "Api", "** ('components/", "server", "-", "api", "/'): ",
                "Node.js/TypeScript backend with CMDO architecture", NL>>
    /\ run.result.created_dirs = 16

\* The types with a descriptive sentence, and the sentence of a type in the
\* script of the last run.
DescribedTypes ==
    {<<"contract">>, <<"server">>, <<"webapp">>, <<"config">>, <<"helm">>, <<"testing">>}

SentenceOf(type) ==
    CASE type = <<"contract">> -> "OpenAPI specifications and type generation"
      [] type = <<"config">> -> "YAML-based configuration management"
      [] type = <<"helm">> -> "Kubernetes deployment charts"
      [] type = <<"testing">> -> "Testkube test definitions"
      [] type = <<"webapp">> -> "React/TypeScript frontend with MVVM pattern"
      [] type = <<"server">> ->
           IF run.script = "scaffolding"
           THEN "Node.js/TypeScript backend with CMDO architecture"
           ELSE "Node.js/TypeScript backend with 5-layer architecture"

\* The line is a list item that ends with the directory of the instance and
\* the sentence of its type.
Describes(line, pc) ==
    LET end == <<"** ('components/">> \o pc.dir_name
                 \o <<"/'): ", SentenceOf(pc.component_type)>>
    IN  /\ Len(line) > Len(end)
        /\ line[1] = "- **"
        /\ HasAt(line, Len(line) - Len(end) + 1, end)

\* The lines of the overview the last run wrote.
OverviewLines == Split(disk.files[P_overview], NL)

\* The selected components whose type has a sentence.
Described == {pc \in Range(Selected) : pc.component_type \in DescribedTypes}

(* C20: after a completed run, specs/architecture/overview.md holds, for    *)
(* every component of the config whose type has a descriptive sentence,     *)
(* exactly one line with the sentence of the type and the directory         *)
(* components/<dir_name>/ of the instance, and every list item of the       *)
(* document is the line of a selected component.                            *)
C20_OverviewEnumerates ==
    Completed =>
      \A lines \in {OverviewLines} :
        /\ \A pc \in Described :
             Cardinality({n \in 1..Len(lines) : Describes(lines[n], pc)}) = 1
        /\ \A n \in 1..Len(lines) :
             lines[n] # <<>> /\ lines[n][1] = "- **"
               => \E pc \in Described : Describes(lines[n], pc)

\* The part of the tree every run creates: the root .gitignore with its
\* five lines, the seven specs directories, components/config and its
\* schemas directory.
FixedTree(d) ==
    /\ P_gitignore \in DOMAIN d.files
    /\ d.files[P_gitignore] =
         <<"node_modules/", NL, ".env", NL, ".DS_Store", NL, "dist/", NL, "*.log", NL>>
    /\ { << <<"specs">> >>,
         << <<"specs">>, <<"domain">> >>,
         << <<"specs">>, <<"domain">>, <<"definitions">> >>,
         << <<"specs">>, <<"domain">>, <<"use-cases">> >>,
         << <<"specs">>, <<"architecture">> >>,
         << <<"specs">>, <<"changes">> >>,
         << <<"specs">>, <<"external">> >>,
         << <<"components">>, <<"config">> >>,
         << <<"components">>, <<"config">>, <<"schemas">> >> } \subseteq d.dirs

\* At target_dir there is no file yet, or the tree a completed run left.
NothingInTheWay == DOMAIN disk.files = {} \/ Completed

(* C21: a run of scaffold_project that completes, whatever the components   *)
(* list, has created the root .gitignore with the fixed content, the seven  *)
(* specs directories and components/config with schemas; a run on a target  *)
(* that exists already (empty, or left by a completed run with the same     *)
(* config) completes, and after a completed run it leaves the directories   *)
(* and files as they were.                                                  *)
C21_FixedTreeAndRerun ==
    [][ /\ run'.code = 0 => FixedTree(disk')
        /\ run'.steps # <<>> /\ NothingInTheWay => run'.code = 0
        /\ run'.steps # <<>> /\ Completed
             => /\ disk'.dirs = disk.dirs
                /\ disk'.files = disk.files ]_vars

\* A completed run of scaffolding.py with the empty components list left
\* the fixed tree, the overview and nothing else.
C21_Witness ==
    /\ Completed
    /\ run.script = "scaffolding"
    /\ run.config["components"] = <<>>
    /\ disk.templates = <<>>
    /\ FixedTree(disk)
    /\ Cardinality(disk.dirs) = 11
    /\ DOMAIN disk.files = {P_gitignore, P_overview}
    /\ run.result.created_dirs = 9

----------------------------------------------------------------------------
(* Regeneration of INDEX.md and SNAPSHOT.md.                                *)

\* The directory as it was before the first run of a generator: the spec
\* files, without the two generated files.
PristineFiles == [p \in AllPaths |-> IF p \in {P_index, P_snapshot} THEN NoFile ELSE fs[p]]

\* The lists a first run may enumerate: the markdown files of the pristine
\* directory whose name, at any depth, is none of the three reserved ones,
\* in any order.
FirstRunLists ==
    Orders({p \in AllPaths :
              /\ PristineFiles[p].exists
              /\ PathName(p)[Len(PathName(p))] = ".md"
              /\ PathName(p) \notin {<<"INDEX", ".md">>, <<"SNAPSHOT", ".md">>,
                                     <<"glossary", ".md">>}})

\* INDEX.md and SNAPSHOT.md are each a text a first run on the pristine
\* directory may produce: the generated files and glossary.md, at any
\* depth, are never enumerated, whatever ran before.
ReservedNeverEnumerated ==
    /\ fs[P_index].exists
         => \E specs \in FirstRunLists :
              TextOf(P_index) = generate_index(PristineFiles, specs, today)
    /\ fs[P_snapshot].exists
         => \E paths \in FirstRunLists :
              TextOf(P_snapshot) = generate_snapshot(PristineFiles, paths, today)

\* Both generators have run, the later one on a directory that held the
\* other's output and sub/glossary.md, and the index counts the one spec.
BothGenerated ==
    /\ fs[P_index].exists /\ fs[P_snapshot].exists
    /\ fs[P_glossary].exists
    /\ fs[P_a].exists /\ TextOf(P_a) = DocActive24
    /\ ~fs[P_b].exists /\ ~fs[P_c].exists
    /\ Count(Split(TextOf(P_index), NL), TotalLineOf(1, 1, 0, 0)) = 1

----------------------------------------------------------------------------
(* The order of the steps of scaffold_project.                              *)

\* The files scaffold_project writes itself (the others are copies of
\* template files, whose parent copy_template_file makes first).
WrittenDirectly == {P_gitignore, P_overview, P_contract_gitignore, P_ci}

\* An earlier step of the run has made the directory that holds the file of
\* step i (mkdir with parents=True makes the directories above as well).
ParentMadeBefore(steps, i) ==
    \E j \in 1..(i - 1) :
      /\ steps[j].op = "mkdir"
      /\ Parent(steps[i].path) \in Prefixes(steps[j].path)

(* C23: in a run of scaffold_project every write of a file (.gitignore,     *)
(* the overview, the contract's .gitignore, ci.yaml and every copy of a     *)
(* template) comes after a step of the same run that made the directory     *)
(* holding the file; when the run completes, every path of the returned    *)
(* `files` list is a file below target_dir and created_files is the length  *)
(* of the list.                                                             *)
C23_WritesAfterMkdir ==
    /\ \A i \in 1..Len(run.steps) :
         run.steps[i].op = "write" => ParentMadeBefore(run.steps, i)
    /\ Completed
         => /\ \A n \in 1..Len(run.result.files) :
                 run.result.files[n] \in DOMAIN disk.files
            /\ run.result.created_files = Len(run.result.files)

\* A completed run of scaffolding.py on [contract, cicd] with the plugin's
\* templates wrote and listed the four files it writes itself.
C23_Witness ==
    /\ Completed
    /\ run.script = "scaffolding"
    /\ run.config["components"] = << <<"contract">>, <<"cicd">> >>
    /\ disk.templates # <<>>
    /\ WrittenDirectly \subseteq DOMAIN disk.files
    /\ WrittenDirectly \subseteq Range(run.result.files)
    /\ run.result.created_files = 9
    /\ \E i \in 1..Len(run.steps) :
         /\ run.steps[i].op = "write" /\ run.steps[i].path = P_ci
         /\ ParentMadeBefore(run.steps, i)

====
